---- MODULE Spec2Model ----
(***************************************************************************)
(* Model of the prediction store (DatabaseManager), the prediction engine  *)
(* (PredictionEngine) and the Electron main process of gh0st359/nexus.     *)
(*                                                                         *)
(* Time.  Every duration the store and the engine use is a whole number of *)
(* minutes (24 h, 7 d, 30 d, 90 d, the hour bucket), so the clock of the   *)
(* model counts minutes: a model instant t stands for t * 60000 ms of       *)
(* Date.now().  The factor 1000 of evaluatePredictions is kept as it is.   *)
(*                                                                         *)
(* SQL NULL / JS null is NULL (numeric columns, which are otherwise >= 0)  *)
(* and NULLSTR (text columns).                                             *)
(***************************************************************************)
EXTENDS Integers, Sequences, FiniteSets, TLC

VARIABLES
    now,              \* the value Date.now() returns
    cryptocurrencies, \* table cryptocurrencies: id -> row
    price_history,    \* table price_history: set of rows
    indicators,       \* table indicators: sequence of rows (rowid order)
    predictions,      \* table predictions: sequence of rows (index = id)
    running,          \* async recomputations suspended at an await
    ret,              \* what the last completed operation returned
    args,             \* the arguments of the call of a pure function
    result,           \* what that call returned
    fetcher           \* the DataFetcher: its rate limiter and request queue

vars == <<now, cryptocurrencies, price_history, indicators, predictions, running, ret,
          args, result, fetcher>>

(***************************************************************************)
(* Bounds of the model                                                     *)
(***************************************************************************)
MaxPredictions == 2
MaxPriceHistory == 1
MaxAccuracyRows == 3
MaxIndicators == 17
MaxHistoryRows == 51
\* the first clock reading; the later readings are those at which a
\* medium-term row created at StartTime has run its timeframe (7 days), and
\* at which the sweep's condition holds for it
StartTime == 3000

Assets == {"btc", "eth"}
HistoryPrices == {90}
\* the volume and the market cap of the points whose price alone matters
VOLUME == 5
MARKET_CAP == 7
CurrentPrices == {80, 100}
Clock == {StartTime, StartTime + 10080, StartTime + 10080000}

(***************************************************************************)
(* Values                                                                  *)
(***************************************************************************)
NULL == -1
NULLSTR == "NULL"

\* JS relational operators convert null to 0
ToNumber(v) == IF v = NULL THEN 0 ELSE v

SHORT_TERM_TIMEFRAME == 1440
MEDIUM_TERM_TIMEFRAME == 10080
THIRTY_DAYS == 43200

SetMax(S) == CHOOSE x \in S : \A y \in S : y <= x
SetMin(S) == CHOOSE x \in S : \A y \in S : x <= y

(***************************************************************************)
(* Inputs                                                                  *)
(***************************************************************************)
\* savePrediction's argument: the record savePredictionForTracking builds,
\* with the directions the evaluator and the engine use
PredictionTypes == {"short_term", "medium_term"}
Timeframe(type) == IF type = "short_term" THEN SHORT_TERM_TIMEFRAME ELSE MEDIUM_TERM_TIMEFRAME
Forecasts ==
    {[direction |-> "up", low |-> 95, high |-> 105],
     [direction |-> "down", low |-> 75, high |-> 85],
     [direction |-> "down", low |-> 0, high |-> 85]}

\* the store-level runs save predictions of one asset; the other asset's
\* rows of cryptocurrencies and price_history must not count for it
PredictionAssets == {"btc"}
CurrentPricesOf(a) == IF a \in PredictionAssets THEN CurrentPrices ELSE {80}

PredictionInputs ==
    {[cryptoId |-> a, createdAt |-> now, type |-> t, timeframe |-> Timeframe(t),
      direction |-> f.direction, probability |-> 60, priceRangeLow |-> f.low,
      priceRangeHigh |-> f.high, confidence |-> 85] :
        a \in PredictionAssets, t \in PredictionTypes, f \in Forecasts}

(***************************************************************************)
(* DatabaseManager                                                         *)
(***************************************************************************)
NoCrypto == [present |-> FALSE, current_price |-> NULL, is_watchlist |-> FALSE]

\* what an operation returns (and, for a sweep, the rows it selected)
NoAggregate == [total |-> NULL, accurate |-> NULL, accuracy_percentage |-> NULL]
NoOverall ==
    [total_predictions |-> NULL, accurate_predictions |-> NULL, accuracy_percentage |-> NULL]
NoAccuracy == [overall |-> NoOverall, byTimeframe |-> {}, last30Days |-> NoAggregate]

Ret(op, asset, value, selected) ==
    [op |-> op, asset |-> asset, value |-> value, selected |-> selected,
     accuracy |-> NoAccuracy, error |-> ""]
\* an operation whose return value nothing reads
NoRet == Ret("none", "", 0, {})

\* no pure function is being called; a call that has not returned
NoCall == [fn |-> "none"]
NotReturned == [returned |-> FALSE]

\* INSERT ... ON CONFLICT(id) DO UPDATE: is_watchlist keeps its value
upsertCryptocurrency(id, current_price) ==
    /\ cryptocurrencies' = [cryptocurrencies EXCEPT ![id] =
            [present |-> TRUE, current_price |-> current_price,
             is_watchlist |-> cryptocurrencies[id].is_watchlist]]
    /\ ret' = NoRet
    /\ UNCHANGED <<fetcher, now, price_history, indicators, predictions, running, args, result>>

\* INSERT OR IGNORE under UNIQUE(crypto_id, timestamp)
InsertOrIgnore_Replace(table, cryptoId, timestamp, price, volume, marketCap) ==
    {r \in table : ~(r.crypto_id = cryptoId /\ r.timestamp = timestamp)}
        \cup {[crypto_id |-> cryptoId, timestamp |-> timestamp, price |-> price,
                volume |-> volume, market_cap |-> marketCap]}

InsertOrIgnore(table, cryptoId, timestamp, price, volume, marketCap) ==
    IF \E r \in table : r.crypto_id = cryptoId /\ r.timestamp = timestamp
    THEN table
    ELSE table \cup {[crypto_id |-> cryptoId, timestamp |-> timestamp, price |-> price,
                      volume |-> volume, market_cap |-> marketCap]}

\* returns the result of stmt.run: changes is 0 for an ignored insert
insertPriceHistory(cryptoId, timestamp, price, volume, marketCap) ==
    /\ price_history' =
          InsertOrIgnore(price_history, cryptoId, timestamp, price, volume, marketCap)
    /\ ret' = Ret("insertPriceHistory", cryptoId,
                  Cardinality(price_history') - Cardinality(price_history), {})
    /\ UNCHANGED <<fetcher, now, cryptocurrencies, indicators, predictions, running, args, result>>

\* the row INSERT INTO predictions creates: the outcome columns are not listed
PredictionRow(prediction) ==
    [crypto_id |-> prediction.cryptoId,
     created_at |-> prediction.createdAt,
     prediction_type |-> prediction.type,
     timeframe |-> prediction.timeframe,
     predicted_direction |-> prediction.direction,
     predicted_probability |-> prediction.probability,
     predicted_price_range_low |-> prediction.priceRangeLow,
     predicted_price_range_high |-> prediction.priceRangeHigh,
     confidence_level |-> prediction.confidence,
     actual_direction |-> NULLSTR,
     actual_price |-> NULL,
     was_accurate |-> NULL,
     evaluated_at |-> NULL]

savePrediction(prediction) ==
    /\ predictions' = Append(predictions, PredictionRow(prediction))
    /\ ret' = NoRet
    /\ UNCHANGED <<fetcher, now, cryptocurrencies, price_history, indicators, running, args, result>>

\* a sweep without the condition on the time
IsDue_NoTimeCondition(p, currentTime) == p.created_at <= currentTime

\* WHERE p.evaluated_at IS NULL AND p.created_at + (p.timeframe * 1000) <= ?
IsDue(p, currentTime) == p.created_at + (p.timeframe * 1000) <= currentTime

\* a sweep without the condition evaluated_at IS NULL
SelectUnevaluated_AlsoEvaluated(currentTime) ==
    {id \in DOMAIN predictions :
        /\ cryptocurrencies[predictions[id].crypto_id].present
        /\ IsDue(predictions[id], currentTime)}

\* SELECT p.*, c.current_price FROM predictions p JOIN cryptocurrencies c ...
SelectUnevaluated(currentTime) ==
    {id \in DOMAIN predictions :
        /\ cryptocurrencies[predictions[id].crypto_id].present
        /\ predictions[id].evaluated_at = NULL
        /\ IsDue(predictions[id], currentTime)}

\* SELECT price FROM price_history WHERE crypto_id = ? AND timestamp <= ?
\* ORDER BY timestamp DESC LIMIT 1   (NULL: no row)
OriginalPrice(cryptoId, createdAt) ==
    LET rows == {r \in price_history : r.crypto_id = cryptoId /\ r.timestamp <= createdAt}
    IN  IF rows = {} THEN NULL
        ELSE (CHOOSE r \in rows : \A q \in rows : q.timestamp <= r.timestamp).price

\* pred.actual_price is the row's own, still NULL, column
ActualDirection(pred, originalPrice) ==
    IF ToNumber(pred.actual_price) > originalPrice THEN "up"
    ELSE IF ToNumber(pred.actual_price) < originalPrice THEN "down"
    ELSE "neutral"

WasAccurate(pred, actualDirection) ==
    /\ actualDirection = pred.predicted_direction
    /\ ToNumber(pred.actual_price) >= pred.predicted_price_range_low
    /\ ToNumber(pred.actual_price) <= pred.predicted_price_range_high

\* an UPDATE that does not wait for a reference price
Evaluated_WithoutReference(pred, currentTime) ==
    LET originalPrice == OriginalPrice(pred.crypto_id, pred.created_at)
        actualDirection == ActualDirection(pred, ToNumber(originalPrice))
    IN  [pred EXCEPT
            !.actual_direction = actualDirection,
            !.actual_price = cryptocurrencies[pred.crypto_id].current_price,
            !.was_accurate = IF WasAccurate(pred, actualDirection) THEN 1 ELSE 0,
            !.evaluated_at = currentTime]

\* the UPDATE of one selected row
Evaluated(pred, currentTime) ==
    LET originalPrice == OriginalPrice(pred.crypto_id, pred.created_at)
        actualDirection == ActualDirection(pred, originalPrice)
    IN  IF originalPrice = NULL THEN pred
        ELSE [pred EXCEPT
                !.actual_direction = actualDirection,
                !.actual_price = cryptocurrencies[pred.crypto_id].current_price,
                !.was_accurate = IF WasAccurate(pred, actualDirection) THEN 1 ELSE 0,
                !.evaluated_at = currentTime]

evaluatePredictions ==
    LET currentTime == now
        selected == SelectUnevaluated(currentTime)
    IN  /\ predictions' = [id \in DOMAIN predictions |->
                IF id \in selected THEN Evaluated(predictions[id], currentTime)
                ELSE predictions[id]]
        /\ ret' = Ret("evaluatePredictions", "", Cardinality(selected), selected)
        /\ UNCHANGED <<fetcher, now, cryptocurrencies, price_history, indicators, running, args, result>>

\* COUNT(*) and SUM(was_accurate) over the rows ids; SUM of no row is NULL
RECURSIVE SumWasAccurate(_)
SumWasAccurate(ids) ==
    IF ids = {} THEN 0
    ELSE LET id == CHOOSE x \in ids : TRUE
         IN  predictions[id].was_accurate + SumWasAccurate(ids \ {id})

SqlSum(ids) == IF ids = {} THEN NULL ELSE SumWasAccurate(ids)

\* ROUND(sum * 100.0 / count, 2), in hundredths of a percent (100.0 is
\* 10000); a NULL operand or a division by zero is NULL; half rounds away
\* from zero
SqlRoundPercentage(sum, count) ==
    IF sum = NULL \/ count = 0 THEN NULL
    ELSE (2 * sum * 10000 + count) \div (2 * count)

Aggregate(ids) ==
    [total |-> Cardinality(ids),
     accurate |-> SqlSum(ids),
     accuracy_percentage |-> SqlRoundPercentage(SqlSum(ids), Cardinality(ids))]

\* an aggregate that forgets the condition evaluated_at IS NOT NULL
EvaluatedRows_AllRows == DOMAIN predictions

\* WHERE evaluated_at IS NOT NULL
EvaluatedRows == {id \in DOMAIN predictions : predictions[id].evaluated_at # NULL}

HistoricalAccuracy(currentTime) ==
    [overall |->
        [total_predictions |-> Aggregate(EvaluatedRows).total,
         accurate_predictions |-> Aggregate(EvaluatedRows).accurate,
         accuracy_percentage |-> Aggregate(EvaluatedRows).accuracy_percentage],
     byTimeframe |->
        {[timeframe |-> tf] @@
            Aggregate({id \in EvaluatedRows : predictions[id].timeframe = tf}) :
                tf \in {predictions[id].timeframe : id \in EvaluatedRows}},
     last30Days |->
        Aggregate({id \in EvaluatedRows :
                      predictions[id].created_at >= currentTime - THIRTY_DAYS})]

getHistoricalAccuracy ==
    /\ ret' = [Ret("getHistoricalAccuracy", "", 0, {}) EXCEPT
                  !.accuracy = HistoricalAccuracy(now)]
    /\ UNCHANGED <<fetcher, now, cryptocurrencies, price_history, indicators, predictions, running, args, result>>

(***************************************************************************)
(* PredictionEngine                                                        *)
(***************************************************************************)
HOUR == 60
DAY == 1440
ANALYSIS_DAYS == 90
MIN_BARS == 50
LOOKBACK == 50

\* .sort((a, b) => a.timestamp - b.timestamp) and ORDER BY timestamp ASC
RECURSIVE Sorted(_)
Sorted(keys) ==
    IF keys = {} THEN <<>>
    ELSE LET least == SetMin(keys) IN <<least>> \o Sorted(keys \ {least})

\* DatabaseManager.getPriceHistory: the rows of the asset not older than
\* days before the clock reading, ORDER BY timestamp ASC
getPriceHistory(cryptoId, days, currentTime) ==
    LET rows == {r \in price_history :
                    r.crypto_id = cryptoId /\ r.timestamp >= currentTime - days * DAY}
        timestamps == Sorted({r.timestamp : r \in rows})
    IN  [i \in 1..Len(timestamps) |-> CHOOSE r \in rows : r.timestamp = timestamps[i]]

\* Math.floor(timestamp / 3600000) * 3600000
HourKey(timestamp) == (timestamp \div HOUR) * HOUR

\* point.volume || 0
OrZero(v) == IF v = NULL THEN 0 ELSE v

Max(a, b) == IF a >= b THEN a ELSE b
Min(a, b) == IF a <= b THEN a ELSE b

\* the bucket that the first point of an hour opens
NewBucket(hourKey, point) ==
    [timestamp |-> hourKey,
     open |-> point.price,
     high |-> point.price,
     low |-> point.price,
     close |-> point.price,
     volume |-> OrZero(point.volume)]

\* a later point that leaves the close of the bucket alone
UpdateBucket_KeepsClose(bucket, point) ==
    [bucket EXCEPT !.high = Max(@, point.price),
                   !.low = Min(@, point.price),
                   !.volume = @ + OrZero(point.volume)]

\* the bucket after a later point of its hour
UpdateBucket(bucket, point) ==
    [bucket EXCEPT !.high = Max(@, point.price),
                   !.low = Min(@, point.price),
                   !.close = point.price,
                   !.volume = @ + OrZero(point.volume)]

\* hourlyBuckets[hourKey] after the first n of the points of the hour, which
\* the loop meets in input order
RECURSIVE Bucket(_, _, _)
Bucket(hourKey, points, n) ==
    IF n = 1 THEN NewBucket(hourKey, points[1])
    ELSE UpdateBucket(Bucket(hourKey, points, n - 1), points[n])

\* Object.values(hourlyBuckets) sorted by timestamp
constructOHLC(priceHistory) ==
    LET hourKeys == Sorted({HourKey(priceHistory[i].timestamp) : i \in DOMAIN priceHistory})
        pointsOf(hourKey) ==
            SelectSeq(priceHistory, LAMBDA point : HourKey(point.timestamp) = hourKey)
    IN  [i \in 1..Len(hourKeys) |->
            LET points == pointsOf(hourKeys[i])
            IN  Bucket(hourKeys[i], points, Len(points))]

\* the keys of the indicators object of getAnalysis, in its order
IndicatorTypes ==
    <<"sma20", "sma50", "sma200", "ema12", "ema26", "rsi", "macd", "stochastic",
      "cci", "roc", "bollingerBands", "atr", "volatility", "volumeMA", "obv",
      "supportResistance", "adx", "ichimoku">>

\* the least number of bars for which TechnicalIndicators does not return
\* null for the indicator
MinLength(type) ==
    CASE type = "sma20" -> 20
      [] type = "sma50" -> 50
      [] type = "sma200" -> 200
      [] type = "ema12" -> 12
      [] type = "ema26" -> 26
      [] type = "rsi" -> 14 + 1
      [] type = "macd" -> 26
      [] type = "stochastic" -> 14
      [] type = "cci" -> 20
      [] type = "roc" -> 12 + 1
      [] type = "bollingerBands" -> 20
      [] type = "atr" -> 14 + 1
      [] type = "volatility" -> 30 + 1
      [] type = "volumeMA" -> 20
      [] type = "obv" -> 2
      [] type = "supportResistance" -> 50
      [] type = "adx" -> 14 * 2
      [] type = "ichimoku" -> 52

\* the local maxima of the highs and the local minima of the lows of the
\* last 50 bars, each strictly beyond its two neighbours on either side
Extrema(ohlcData, lookback, isResistance) ==
    LET recentData == SubSeq(ohlcData, Len(ohlcData) - lookback + 1, Len(ohlcData))
        level(i) == IF isResistance THEN recentData[i].high ELSE recentData[i].low
        beyond(x, y) == IF isResistance THEN x > y ELSE x < y
    IN  {level(i) : i \in {j \in 3..(lookback - 2) :
            /\ beyond(level(j), level(j - 1)) /\ beyond(level(j), level(j - 2))
            /\ beyond(level(j), level(j + 1)) /\ beyond(level(j), level(j + 2))}}

\* analyzeSupportResistance reads nearestSupport.toFixed and
\* nearestResistance.toFixed: a TypeError when calculateSupportResistance
\* found no support or no resistance level (clusterLevels maps no level to
\* no level and some levels to some)
analyzeSupportResistanceThrows(ohlcData) ==
    /\ Len(ohlcData) >= LOOKBACK
    /\ \/ Extrema(ohlcData, LOOKBACK, TRUE) = {}
       \/ Extrema(ohlcData, LOOKBACK, FALSE) = {}

\* generateProbabilityDistribution: compositeScore is in hundredths,
\* probability and confidence are in ten-thousandths of a percent (so that
\* the products by 0.85 and 0.8 are whole); expectedMove is in thousandths
\* and a price bound is rounded down to a whole price
\* a regime that is not classified counts as high
VolatilityMultiplier_DefaultHigh(volatilityLevel) ==
    CASE volatilityLevel = "very high" -> 50
      [] volatilityLevel = "high" -> 70
      [] volatilityLevel = "medium" -> 85
      [] volatilityLevel = "low" -> 95
      [] OTHER -> 70

\* {...}[volatilityLevel] || 0.85
VolatilityMultiplier(volatilityLevel) ==
    CASE volatilityLevel = "very high" -> 50
      [] volatilityLevel = "high" -> 70
      [] volatilityLevel = "medium" -> 85
      [] volatilityLevel = "low" -> 95
      [] OTHER -> 85

\* volatilityValues[volatilityLevel] || 0.07
ExpectedMove(volatilityLevel) ==
    CASE volatilityLevel = "very high" -> 150
      [] volatilityLevel = "high" -> 100
      [] volatilityLevel = "medium" -> 70
      [] volatilityLevel = "low" -> 40
      [] OTHER -> 70

Abs(x) == IF x < 0 THEN 0 - x ELSE x

\* a medium-term range as narrow as the short-term range
generateProbabilityDistribution_SameRange(compositeScore, volatilityLevel, currentPrice) ==
    LET baseConfidence == VolatilityMultiplier(volatilityLevel)
        direction ==
            IF Abs(compositeScore) > 50
            THEN (IF compositeScore > 0 THEN "bullish" ELSE "bearish")
            ELSE IF Abs(compositeScore) > 25
            THEN (IF compositeScore > 0 THEN "slightly bullish" ELSE "slightly bearish")
            ELSE "neutral"
        probability ==
            IF Abs(compositeScore) > 50 THEN Abs(compositeScore) * 10000
            ELSE IF Abs(compositeScore) > 25 THEN 500000 + (Abs(compositeScore) * 10000) \div 2
            ELSE 500000
        expectedMove == ExpectedMove(volatilityLevel)
    IN  [shortTerm |->
            [direction |-> direction,
             probability |-> probability,
             confidence |-> baseConfidence * 10000,
             low |-> (currentPrice * (2000 - expectedMove)) \div 2000,
             high |-> (currentPrice * (2000 + expectedMove)) \div 2000],
         mediumTerm |->
            [direction |-> direction,
             probability |-> (probability * 85) \div 100,
             confidence |-> baseConfidence * 8000,
             low |-> (currentPrice * (2000 - expectedMove)) \div 2000,
             high |-> (currentPrice * (2000 + expectedMove)) \div 2000]]

generateProbabilityDistribution(compositeScore, volatilityLevel, currentPrice) ==
    LET baseConfidence == VolatilityMultiplier(volatilityLevel)
        direction ==
            IF Abs(compositeScore) > 50
            THEN (IF compositeScore > 0 THEN "bullish" ELSE "bearish")
            ELSE IF Abs(compositeScore) > 25
            THEN (IF compositeScore > 0 THEN "slightly bullish" ELSE "slightly bearish")
            ELSE "neutral"
        probability ==
            IF Abs(compositeScore) > 50 THEN Abs(compositeScore) * 10000
            ELSE IF Abs(compositeScore) > 25 THEN 500000 + (Abs(compositeScore) * 10000) \div 2
            ELSE 500000
        expectedMove == ExpectedMove(volatilityLevel)
    IN  [shortTerm |->
            [direction |-> direction,
             probability |-> probability,
             confidence |-> baseConfidence * 10000,
             low |-> (currentPrice * (2000 - expectedMove)) \div 2000,
             high |-> (currentPrice * (2000 + expectedMove)) \div 2000],
         mediumTerm |->
            [direction |-> direction,
             probability |-> (probability * 85) \div 100,
             confidence |-> baseConfidence * 8000,
             low |-> (currentPrice * (2000 - 3 * expectedMove)) \div 2000,
             high |-> (currentPrice * (2000 + 3 * expectedMove)) \div 2000]]

\* getAnalysis gives up on fewer than 49 bars
TooFewBars_OneLess(ohlcData) == Len(ohlcData) < MIN_BARS - 1

\* if (!ohlcData || ohlcData.length < 50) return null
TooFewBars(ohlcData) == Len(ohlcData) < MIN_BARS

\* getAnalysis after its await: the bars, the indicators that are not null,
\* one saveIndicator per such indicator, stamped with the clock reading.
\* fault = k > 0: the k-th saveIndicator call throws, which the catch of
\* getAnalysis turns into null.
getAnalysisResult(cryptoId, priceHistory, currentTime, fault) ==
    LET ohlcData == constructOHLC(priceHistory)
        computed == SelectSeq(IndicatorTypes, LAMBDA type : Len(ohlcData) >= MinLength(type))
        thrown == fault > 0 /\ fault <= Len(computed)
        saved == IF thrown THEN SubSeq(computed, 1, fault - 1) ELSE computed
    IN  IF TooFewBars(ohlcData)
        THEN [null |-> TRUE, error |-> "", rows |-> <<>>, currentPrice |-> NULL,
              supportResistanceThrows |-> FALSE]
        ELSE [null |-> thrown,
              error |-> IF thrown THEN "saveIndicator" ELSE "",
              rows |-> [i \in 1..Len(saved) |->
                          [crypto_id |-> cryptoId, timestamp |-> currentTime,
                           indicator_type |-> saved[i]]],
              currentPrice |-> ohlcData[Len(ohlcData)].close,
              supportResistanceThrows |-> analyzeSupportResistanceThrows(ohlcData)]

\* tracking that saves the short-term forecast only
savePredictionForTracking_ShortTermOnly(cryptoId, prediction, currentTime, fault) ==
    IF fault > 0 THEN <<>>
    ELSE <<PredictionRow(
             [cryptoId |-> cryptoId, createdAt |-> currentTime, type |-> "short_term",
              timeframe |-> Timeframe("short_term"),
              direction |-> prediction.shortTerm.direction,
              probability |-> prediction.shortTerm.probability,
              priceRangeLow |-> prediction.shortTerm.low,
              priceRangeHigh |-> prediction.shortTerm.high,
              confidence |-> prediction.shortTerm.confidence])>>

\* the rows savePredictionForTracking inserts.  fault = k > 0: the k-th
\* savePrediction call throws, which savePredictionForTracking catches.
savePredictionForTracking(cryptoId, prediction, currentTime, fault) ==
    LET input(type, term) ==
            [cryptoId |-> cryptoId, createdAt |-> currentTime, type |-> type,
             timeframe |-> Timeframe(type), direction |-> term.direction,
             probability |-> term.probability, priceRangeLow |-> term.low,
             priceRangeHigh |-> term.high, confidence |-> term.confidence]
        rows == <<PredictionRow(input("short_term", prediction.shortTerm)),
                  PredictionRow(input("medium_term", prediction.mediumTerm))>>
    IN  IF fault > 0 THEN SubSeq(rows, 1, fault - 1) ELSE rows

(***************************************************************************)
(* The main process: an IPC handler or an interval callback starts when no *)
(* continuation is pending; a started recomputation stops at each await    *)
(* (of a value that is at hand) and is resumed before anything else starts *)
(***************************************************************************)
NoTerm == [direction |-> "", probability |-> 0, confidence |-> 0, low |-> 0, high |-> 0]
NoPrediction == [shortTerm |-> NoTerm, mediumTerm |-> NoTerm]

\* inputs of the model: what the analyzers sum up to, and the volatility
\* level, for the fetched prices
Scores == {-60, 30}
VolatilityLevels == {"low"}
ListPrices == {1000}
Wave == <<0, 20, 40, 20, 0, -20>>
FetchedPrice(hoursAgo) == 1000 + Wave[(hoursAgo % 6) + 1]
FetchLengths == {MIN_BARS - 1, MIN_BARS}
\* the asset the user watches and opens the chart of
TrackedAssets == {"btc"}

Task(handler, stage, asset, priceHistory, todo, prediction) ==
    [handler |-> handler, stage |-> stage, asset |-> asset,
     priceHistory |-> priceHistory, todo |-> todo, prediction |-> prediction]

Idle == running = {}

Watchlist == {a \in Assets : cryptocurrencies[a].present /\ cryptocurrencies[a].is_watchlist}

\* SELECT without ORDER BY: the rows in some order
Orderings(S) ==
    {o \in [1..Cardinality(S) -> S] : \A a \in S : \E i \in 1..Cardinality(S) : o[i] = a}

\* the 5-minute interval: updateCryptocurrencyList upserts every listed coin
updateCryptocurrencyList ==
    /\ Idle
    /\ \E price \in ListPrices :
          cryptocurrencies' = [a \in Assets |->
              [present |-> TRUE, current_price |-> price,
               is_watchlist |-> cryptocurrencies[a].is_watchlist]]
    /\ ret' = NoRet
    /\ UNCHANGED <<fetcher, now, price_history, indicators, predictions, running, args, result>>

\* ipcMain.handle('toggle-watchlist')
toggleWatchlist(cryptoId) ==
    /\ Idle
    /\ cryptocurrencies' = [cryptocurrencies EXCEPT ![cryptoId].is_watchlist =
            IF cryptocurrencies[cryptoId].present THEN ~@ ELSE @]
    /\ ret' = Ret("toggleWatchlist", cryptoId,
                  IF cryptocurrencies'[cryptoId].is_watchlist THEN 1 ELSE 0, {})
    /\ UNCHANGED <<fetcher, now, price_history, indicators, predictions, running, args, result>>

\* the 30-second interval: updatePrices gives each watched coin its new
\* current price and one price_history point at the clock reading
updatePrices ==
    /\ Idle
    /\ Watchlist # {}
    /\ \E price \in ListPrices :
          /\ cryptocurrencies' = [a \in Assets |->
                IF a \in Watchlist
                THEN [cryptocurrencies[a] EXCEPT !.current_price = price]
                ELSE cryptocurrencies[a]]
          /\ price_history' = price_history \cup
                {[crypto_id |-> a, timestamp |-> now, price |-> price,
                  volume |-> VOLUME, market_cap |-> MARKET_CAP] :
                    a \in {w \in Watchlist :
                              ~\E r \in price_history :
                                   r.crypto_id = w /\ r.timestamp = now}}
    /\ ret' = NoRet
    /\ UNCHANGED <<fetcher, now, indicators, predictions, running, args, result>>

\* ipcMain.handle('get-price-history'): DataFetcher.getPriceHistory stores
\* the hourly points of the market chart unless enough points are cached
DataFetcher_getPriceHistory(cryptoId, days, length) ==
    /\ Idle
    /\ LET cached == getPriceHistory(cryptoId, days, now)
           fetched == {[crypto_id |-> cryptoId, timestamp |-> now - HOUR * i,
                        price |-> FetchedPrice(i), volume |-> VOLUME,
                        market_cap |-> MARKET_CAP] : i \in 0..(length - 1)}
       IN  price_history' =
              IF Len(cached) > days * 20 THEN price_history
              ELSE price_history \cup
                     {f \in fetched : ~\E r \in price_history :
                          r.crypto_id = f.crypto_id /\ r.timestamp = f.timestamp}
    /\ ret' = NoRet
    /\ UNCHANGED <<fetcher, now, cryptocurrencies, indicators, predictions, running, args, result>>

\* ipcMain.handle('get-analysis'): getAnalysis up to its await
ipc_get_analysis(cryptoId) ==
    /\ Idle
    /\ running' = {Task("get-analysis", "getAnalysis", cryptoId,
                        getPriceHistory(cryptoId, ANALYSIS_DAYS, now), <<>>, NoPrediction)}
    /\ ret' = NoRet
    /\ UNCHANGED <<fetcher, now, cryptocurrencies, price_history, indicators, predictions, args, result>>

\* ipcMain.handle('get-prediction'): generatePrediction up to the await in
\* getAnalysis
ipc_get_prediction(cryptoId) ==
    /\ Idle
    /\ running' = {Task("get-prediction", "getAnalysis", cryptoId,
                        getPriceHistory(cryptoId, ANALYSIS_DAYS, now), <<>>, NoPrediction)}
    /\ ret' = NoRet
    /\ UNCHANGED <<fetcher, now, cryptocurrencies, price_history, indicators, predictions, args, result>>

\* the 2-minute interval, up to await database.getWatchlist()
recalculateIndicators ==
    /\ Idle
    /\ \E watchlist \in Orderings(Watchlist) :
          running' = {Task("recalculate", "loop", "", <<>>, watchlist, NoPrediction)}
    /\ ret' = NoRet
    /\ UNCHANGED <<fetcher, now, cryptocurrencies, price_history, indicators, predictions, args, result>>

\* the loop of the interval callback: updateAnalysis of the next watched
\* coin, up to the await in getAnalysis, or the end of the callback
updateAnalysis ==
    \E task \in running :
        /\ task.stage = "loop"
        /\ running' =
              IF task.todo = <<>> THEN {}
              ELSE {[task EXCEPT
                       !.stage = "getAnalysis",
                       !.asset = Head(task.todo),
                       !.priceHistory = getPriceHistory(Head(task.todo), ANALYSIS_DAYS, now),
                       !.todo = Tail(task.todo)]}
        /\ ret' = NoRet
        /\ UNCHANGED <<fetcher, now, cryptocurrencies, price_history, indicators, predictions, args, result>>

\* getAnalysis from its await to its return, and what its caller does with
\* the result up to the caller's next await: the interval callback loops,
\* get-analysis returns it, generatePrediction returns null for null, lets
\* the TypeError of analyzeSupportResistance reach the handler (which
\* returns null), or builds the forecast and awaits
\* getHistoricalAccuracyForConditions
getAnalysis ==
    \E task \in running, fault \in {0, 1} :
        /\ task.stage = "getAnalysis"
        /\ LET analysis == getAnalysisResult(task.asset, task.priceHistory, now, fault)
               returned(op, error) ==
                   [Ret(op, task.asset,
                        IF analysis.null \/ error # "" THEN NULL ELSE analysis.currentPrice,
                        {}) EXCEPT !.error = error]
           IN  /\ fault > 0 => analysis.error # ""
               /\ indicators' = indicators \o analysis.rows
               /\ CASE task.handler = "get-analysis" ->
                        /\ running' = {}
                        /\ ret' = returned("getAnalysis", analysis.error)
                    [] task.handler = "recalculate" ->
                        /\ running' = {[task EXCEPT !.stage = "loop"]}
                        /\ ret' = returned("getAnalysis", analysis.error)
                    [] task.handler = "get-prediction" /\ analysis.null ->
                        /\ running' = {}
                        /\ ret' = returned("generatePrediction", analysis.error)
                    [] task.handler = "get-prediction" /\ ~analysis.null
                          /\ analysis.supportResistanceThrows ->
                        /\ running' = {}
                        /\ ret' = returned("generatePrediction", "analyzeSupportResistance")
                    [] OTHER ->
                        /\ \E compositeScore \in Scores, volatilityLevel \in VolatilityLevels :
                              running' = {[task EXCEPT
                                  !.stage = "generatePrediction",
                                  !.prediction = generateProbabilityDistribution(
                                      compositeScore, volatilityLevel, analysis.currentPrice)]}
                        /\ ret' = NoRet
        /\ UNCHANGED <<fetcher, now, cryptocurrencies, price_history, predictions, args, result>>

\* generatePrediction from its second await to its return:
\* savePredictionForTracking, then the forecast goes to the caller
generatePrediction ==
    \E task \in running, fault \in {0, 1, 2} :
        /\ task.stage = "generatePrediction"
        /\ predictions' = predictions \o
              savePredictionForTracking(task.asset, task.prediction, now, fault)
        /\ running' = {}
        /\ ret' = [Ret("generatePrediction", task.asset, task.prediction.shortTerm.low, {})
                      EXCEPT !.error = IF fault > 0 THEN "savePrediction" ELSE ""]
        /\ UNCHANGED <<fetcher, now, cryptocurrencies, price_history, indicators, args, result>>

(***************************************************************************)
(* The clock                                                               *)
(***************************************************************************)
Tick ==
    /\ \E t \in Clock : t > now /\ now' = t
    /\ ret' = NoRet
    /\ UNCHANGED <<fetcher, cryptocurrencies, price_history, indicators, predictions, running, args, result>>

(***************************************************************************)
(* The store under any sequence of calls                                   *)
(***************************************************************************)
(***************************************************************************)
(* DataFetcher: the rate-limited queue of CoinGecko requests.  Its clock   *)
(* is Date.now() in milliseconds.  A request is known by the order in      *)
(* which it was made; requests[id] counts what happened to it.  A loop is  *)
(* one invocation of processQueue suspended at one of its awaits.          *)
(***************************************************************************)
COINGECKO_MIN_INTERVAL == 1200
REQUEST_DELAY == 100
MaxRequests == 3
MaxClock == 10000
CONSTRUCTED_AT == 5000

\* how long an HTTP call can take until it succeeds or fails, and how long
\* the application can leave the queue idle
Durations == {50, 2000}
IdleTimes == {1500}

NewRequest == [dequeued |-> 0, attempts |-> 0, settled |-> 0, outcome |-> "pending"]

\* the DataFetcher after its constructor; no HTTP call has started (NULL)
NewFetcher ==
    [clock |-> CONSTRUCTED_AT, lastCoinGeckoCall |-> 0, requestQueue |-> <<>>,
     processing |-> FALSE, loops |-> <<>>, requests |-> <<>>,
     previousStart |-> NULL, lastStart |-> NULL]

Loop(pc, at, request) == [pc |-> pc, at |-> at, request |-> request]

WithoutLoop(loops, i) ==
    [j \in 1..(Len(loops) - 1) |-> IF j < i THEN loops[j] ELSE loops[j + 1]]

\* const request = this.requestQueue.shift() and the start of axios.get;
\* on an empty queue request is undefined and request.endpoint throws: the
\* invocation ends and processing stays as it is
Shift(f, i) ==
    IF f.requestQueue = <<>> THEN [f EXCEPT !.loops = WithoutLoop(@, i)]
    ELSE LET request == Head(f.requestQueue)
         IN  [f EXCEPT !.requestQueue = Tail(@),
                       !.loops[i] = Loop("get", f.clock, request),
                       !.requests[request].dequeued = @ + 1,
                       !.requests[request].attempts = @ + 1,
                       !.previousStart = f.lastStart,
                       !.lastStart = f.clock]

\* the while test and the body of the loop up to its first await
LoopHead(f, i) ==
    IF f.requestQueue = <<>>
    THEN [f EXCEPT !.processing = FALSE, !.loops = WithoutLoop(@, i)]
    ELSE LET timeSinceLastCall == f.clock - f.lastCoinGeckoCall
         IN  IF timeSinceLastCall < COINGECKO_MIN_INTERVAL
             THEN [f EXCEPT !.loops[i] =
                      Loop("sleep", f.clock + (COINGECKO_MIN_INTERVAL - timeSinceLastCall), 0)]
             ELSE Shift(f, i)

\* processQueue without the test of this.processing
processQueue_Unguarded(f) ==
    IF f.requestQueue = <<>> THEN f
    ELSE LoopHead([f EXCEPT !.processing = TRUE, !.loops = Append(@, Loop("head", 0, 0))],
                  Len(f.loops) + 1)

\* processQueue up to its first await
processQueue(f) ==
    IF f.processing \/ f.requestQueue = <<>> THEN f
    ELSE LoopHead([f EXCEPT !.processing = TRUE, !.loops = Append(@, Loop("head", 0, 0))],
                  Len(f.loops) + 1)

FetcherStep(f) ==
    /\ fetcher' = f
    /\ UNCHANGED <<now, cryptocurrencies, price_history, indicators, predictions, running,
                   ret, args, result>>

\* coinGeckoRequest(endpoint, params): push and processQueue
coinGeckoRequest ==
    /\ Len(fetcher.requests) < MaxRequests
    /\ FetcherStep(processQueue(
          [fetcher EXCEPT !.requests = Append(@, NewRequest),
                          !.requestQueue = Append(@, Len(fetcher.requests) + 1)]))

\* the timer of sleep(coinGeckoMinInterval - timeSinceLastCall) fires
wake_interval(i) ==
    /\ fetcher.loops[i].pc = "sleep"
    /\ FetcherStep(Shift([fetcher EXCEPT !.clock = Max(@, fetcher.loops[i].at)], i))

\* axios.get succeeds or fails after some time; then sleep(100) starts
http_response(i, succeeds, duration) ==
    /\ fetcher.loops[i].pc = "get"
    /\ LET request == fetcher.loops[i].request
           time == Max(fetcher.clock, fetcher.loops[i].at + duration)
       IN  FetcherStep(
              [fetcher EXCEPT
                  !.clock = time,
                  !.lastCoinGeckoCall = IF succeeds THEN time ELSE @,
                  !.requests[request].settled = @ + 1,
                  !.requests[request].outcome = IF succeeds THEN "resolved" ELSE "rejected",
                  !.loops[i] = Loop("delay", time + REQUEST_DELAY, 0)])

\* the timer of sleep(100) fires: back to the while test
wake_delay(i) ==
    /\ fetcher.loops[i].pc = "delay"
    /\ FetcherStep(LoopHead([fetcher EXCEPT !.clock = Max(@, fetcher.loops[i].at)], i))

\* time passes while no loop is suspended
Elapse(time) ==
    /\ fetcher.loops = <<>>
    /\ fetcher.clock + time <= MaxClock
    /\ FetcherStep([fetcher EXCEPT !.clock = @ + time])

Init ==
    /\ now = StartTime
    /\ cryptocurrencies = [a \in Assets |-> NoCrypto]
    /\ price_history = {}
    /\ indicators = <<>>
    /\ predictions = <<>>
    /\ running = {}
    /\ ret = NoRet
    /\ args = NoCall
    /\ result = NotReturned
    /\ fetcher = NewFetcher

Next ==
    \/ Tick
    \/ \E a \in Assets : \E p \in CurrentPricesOf(a) : upsertCryptocurrency(a, p)
    \/ /\ Cardinality(price_history) < MaxPriceHistory
       /\ \E a \in Assets, p \in HistoryPrices : insertPriceHistory(a, now, p, VOLUME, MARKET_CAP)
    \/ /\ Len(predictions) < MaxPredictions
       /\ \E prediction \in PredictionInputs : savePrediction(prediction)
    \/ evaluatePredictions

Spec == Init /\ [][Next]_vars

(***************************************************************************)
(* The accuracy statistics: the store with one listed asset, one reference *)
(* price and forecasts the sweep marks accurate or not, read after any     *)
(* sequence of saves and sweeps                                            *)
(***************************************************************************)
AccuracyInputs == {p \in PredictionInputs : p.direction = "down"}

AccuracyNext ==
    \/ Tick
    \/ upsertCryptocurrency("btc", 80)
    \/ /\ price_history = {}
       /\ insertPriceHistory("btc", now, 90, VOLUME, MARKET_CAP)
    \/ /\ Len(predictions) < MaxAccuracyRows
       /\ \E prediction \in AccuracyInputs : savePrediction(prediction)
    \/ evaluatePredictions
    \/ getHistoricalAccuracy

AccuracySpec == Init /\ [][AccuracyNext]_vars

(***************************************************************************)
(* The application: the interval callbacks of startBackgroundTasks and the *)
(* IPC handlers                                                            *)
(***************************************************************************)
AppNext ==
    \/ Tick
    \/ updateCryptocurrencyList
    \/ \E a \in TrackedAssets : toggleWatchlist(a)
    \/ /\ Cardinality(price_history) < MaxHistoryRows
       /\ updatePrices
    \/ /\ \E a \in TrackedAssets, length \in FetchLengths :
            /\ Cardinality(price_history) + length <= MaxHistoryRows
            /\ DataFetcher_getPriceHistory(a, ANALYSIS_DAYS, length)
    \/ /\ Len(indicators) < MaxIndicators
       /\ \E a \in Assets : ipc_get_analysis(a)
    \/ /\ Len(indicators) < MaxIndicators
       /\ Len(predictions) < MaxPredictions
       /\ \E a \in Assets : ipc_get_prediction(a)
    \/ /\ Len(indicators) < MaxIndicators
       /\ recalculateIndicators
    \/ updateAnalysis
    \/ getAnalysis
    \/ generatePrediction
    \/ Idle /\ getHistoricalAccuracy

AppSpec == Init /\ [][AppNext]_vars

(***************************************************************************)
(* The price history under any sequence of insertPriceHistory calls        *)
(***************************************************************************)
PointTimestamps == {StartTime, StartTime + 1}
PointPrices == {90, 110}
PointVolumes == {NULL, 5}
PointMarketCaps == {7, 9}

HistoryNext ==
    \E a \in Assets, t \in PointTimestamps, p \in PointPrices,
       v \in PointVolumes, m \in PointMarketCaps : insertPriceHistory(a, t, p, v, m)

HistorySpec == Init /\ [][HistoryNext]_vars

(***************************************************************************)
(* The pure functions: a call with arguments drawn from a bounded set, and *)
(* its return                                                              *)
(***************************************************************************)
\* the sequences over S of at most n elements
SeqsUpTo(S, n) == UNION {[1..k -> S] : k \in 0..n}

PureInit(calls) ==
    /\ now = StartTime
    /\ cryptocurrencies = [a \in Assets |-> NoCrypto]
    /\ price_history = {}
    /\ indicators = <<>>
    /\ predictions = <<>>
    /\ running = {}
    /\ ret = NoRet
    /\ args \in calls
    /\ result = NotReturned
    /\ fetcher = NewFetcher

Return(value) ==
    /\ ~result.returned
    /\ result' = [returned |-> TRUE, value |-> value]
    /\ UNCHANGED <<fetcher, now, cryptocurrencies, price_history, indicators, predictions, running,
                   ret, args>>

(***************************************************************************)
(* constructOHLC on any sequence of price points: two hours, points in any *)
(* order, with and without a volume                                        *)
(***************************************************************************)
MaxPoints == 3
OhlcPoints ==
    [timestamp : {StartTime, StartTime + 30, StartTime + HOUR},
     price : {90, 110},
     volume : {NULL, 5}]
OhlcCalls ==
    {[fn |-> "constructOHLC", priceHistory |-> points] :
        points \in SeqsUpTo(OhlcPoints, MaxPoints)}

call_constructOHLC ==
    /\ args.fn = "constructOHLC"
    /\ Return(constructOHLC(args.priceHistory))

OhlcNext == call_constructOHLC

OhlcSpec == PureInit(OhlcCalls) /\ [][OhlcNext]_vars

(***************************************************************************)
(* JavaScript numbers: a finite number is an exact fraction n/d in lowest  *)
(* terms with d > 0 (rounding is not modelled), and d = 0 gives the three  *)
(* values a division can yield besides: NaN (0/0), Infinity, -Infinity     *)
(***************************************************************************)
RECURSIVE GCD(_, _)
GCD(a, b) == IF b = 0 THEN a ELSE GCD(b, a % b)

Sign(k) == IF k > 0 THEN 1 ELSE IF k < 0 THEN -1 ELSE 0

Rat(n, d) ==
    LET g == GCD(Abs(n), Abs(d))
    IN  [n |-> Sign(d) * (n \div g), d |-> Abs(d) \div g]

Num(k) == [n |-> k, d |-> 1]
NaN == [n |-> 0, d |-> 0]
Infinity == [n |-> 1, d |-> 0]
IsNaN(x) == x.d = 0 /\ x.n = 0
IsFinite(x) == x.d # 0

Neg(x) == [n |-> 0 - x.n, d |-> x.d]
AbsNum(x) == [n |-> Abs(x.n), d |-> x.d]

\* x + y
Add(x, y) ==
    IF IsFinite(x) /\ IsFinite(y)
    THEN LET g == GCD(x.d, y.d)
         IN  Rat(x.n * (y.d \div g) + y.n * (x.d \div g), (x.d \div g) * y.d)
    ELSE IF IsNaN(x) \/ IsNaN(y) THEN NaN
    ELSE IF ~IsFinite(x) /\ ~IsFinite(y) THEN (IF x.n = y.n THEN x ELSE NaN)
    ELSE IF ~IsFinite(x) THEN x ELSE y

\* x - y
Sub(x, y) == Add(x, Neg(y))

\* x * y
Mul(x, y) ==
    IF IsFinite(x) /\ IsFinite(y)
    THEN LET g == GCD(Abs(x.n), y.d)
             h == GCD(Abs(y.n), x.d)
         IN  Rat((x.n \div g) * (y.n \div h), (x.d \div h) * (y.d \div g))
    ELSE IF IsNaN(x) \/ IsNaN(y) \/ x.n = 0 \/ y.n = 0 THEN NaN
    ELSE [n |-> Sign(x.n) * Sign(y.n), d |-> 0]

\* x / y: a finite number over zero is NaN (0/0) or an infinity
Div(x, y) ==
    IF IsNaN(x) \/ IsNaN(y) THEN NaN
    ELSE IF ~IsFinite(y) THEN (IF IsFinite(x) THEN Num(0) ELSE NaN)
    ELSE IF ~IsFinite(x) THEN (IF y.n < 0 THEN Neg(x) ELSE x)
    ELSE IF y.n = 0 THEN [n |-> Sign(x.n), d |-> 0]
    ELSE Mul(x, [n |-> Sign(y.n) * y.d, d |-> Abs(y.n)])

\* x < y, x > y, x === y: false when either is NaN
Lt(x, y) == ~IsNaN(x) /\ ~IsNaN(y) /\ x.n * y.d < y.n * x.d
Gt(x, y) == Lt(y, x)
StrictEq(x, y) == ~IsNaN(x) /\ ~IsNaN(y) /\ x = y

\* Math.max(...xs) and Math.min(...xs): NaN when an argument is NaN
MathMax(xs) ==
    IF \E i \in DOMAIN xs : IsNaN(xs[i]) THEN NaN
    ELSE xs[CHOOSE i \in DOMAIN xs : \A j \in DOMAIN xs : ~Lt(xs[i], xs[j])]
MathMin(xs) ==
    IF \E i \in DOMAIN xs : IsNaN(xs[i]) THEN NaN
    ELSE xs[CHOOSE i \in DOMAIN xs : \A j \in DOMAIN xs : ~Lt(xs[j], xs[i])]

\* xs.reduce((a, b) => a + b, 0)
RECURSIVE SumNum(_)
SumNum(xs) ==
    IF xs = <<>> THEN Num(0)
    ELSE Add(SumNum(SubSeq(xs, 1, Len(xs) - 1)), xs[Len(xs)])

\* the array of the numbers of a sequence of integers
Nums(ints) == [i \in DOMAIN ints |-> Num(ints[i])]

(***************************************************************************)
(* TechnicalIndicators: a method returns null or arrays of numbers         *)
(***************************************************************************)
Null == [null |-> TRUE, items |-> <<>>]
Arr(items) == [null |-> FALSE, items |-> items]

\* a window that starts one price late
calculateSMA_ShortWindow(prices, period) ==
    IF Len(prices) < period THEN Null
    ELSE Arr([i \in 1..(Len(prices) - period + 1) |->
                Div(SumNum(SubSeq(prices, i + 1, i + period - 1)), Num(period))])

calculateSMA(prices, period) ==
    IF Len(prices) < period THEN Null
    ELSE Arr([i \in 1..(Len(prices) - period + 1) |->
                Div(SumNum(SubSeq(prices, i, i + period - 1)), Num(period))])

\* ema[0..n-1] of the loop of calculateEMA
RECURSIVE EmaLoop(_, _, _)
EmaLoop(prices, k, n) ==
    IF n = 1 THEN <<prices[1]>>
    ELSE LET ema == EmaLoop(prices, k, n - 1)
         IN  Append(ema, Add(Mul(prices[n], k), Mul(ema[n - 1], Sub(Num(1), k))))

calculateEMA(prices, period) ==
    IF Len(prices) < period THEN Null
    ELSE Arr(EmaLoop(prices, Rat(2, period + 1), Len(prices)))

\* the loop without the test avgLoss === 0
RECURSIVE RsiLoop_Unguarded(_, _, _, _, _, _)
RsiLoop_Unguarded(changes, period, i, avgGain, avgLoss, rsi) ==
    IF i > Len(changes) THEN rsi
    ELSE LET rs == Div(avgGain, avgLoss)
             change == changes[i]
             gain == IF Gt(change, Num(0)) THEN change ELSE Num(0)
             loss == IF Lt(change, Num(0)) THEN AbsNum(change) ELSE Num(0)
         IN  RsiLoop_Unguarded(changes, period, i + 1,
                     Div(Add(Mul(avgGain, Num(period - 1)), gain), Num(period)),
                     Div(Add(Mul(avgLoss, Num(period - 1)), loss), Num(period)),
                     Append(rsi, Sub(Num(100), Div(Num(100), Add(Num(1), rs)))))

\* the second loop of calculateRSI from index i on
RECURSIVE RsiLoop(_, _, _, _, _, _)
RsiLoop(changes, period, i, avgGain, avgLoss, rsi) ==
    IF i > Len(changes) THEN rsi
    ELSE LET rs == IF StrictEq(avgLoss, Num(0)) THEN Num(100) ELSE Div(avgGain, avgLoss)
             change == changes[i]
             gain == IF Gt(change, Num(0)) THEN change ELSE Num(0)
             loss == IF Lt(change, Num(0)) THEN AbsNum(change) ELSE Num(0)
         IN  RsiLoop(changes, period, i + 1,
                     Div(Add(Mul(avgGain, Num(period - 1)), gain), Num(period)),
                     Div(Add(Mul(avgLoss, Num(period - 1)), loss), Num(period)),
                     Append(rsi, Sub(Num(100), Div(Num(100), Add(Num(1), rs)))))

calculateRSI(prices, period) ==
    IF Len(prices) < period + 1 THEN Null
    ELSE LET changes == [i \in 1..(Len(prices) - 1) |-> Sub(prices[i + 1], prices[i])]
             initial == SubSeq(changes, 1, period)
             gains == SelectSeq(initial, LAMBDA c : Gt(c, Num(0)))
             losses == SelectSeq(initial, LAMBDA c : ~Gt(c, Num(0)))
             avgGain == Div(SumNum(gains), Num(period))
             avgLoss == Div(SumNum([i \in DOMAIN losses |-> AbsNum(losses[i])]), Num(period))
         IN  Arr(RsiLoop(changes, period, period + 1, avgGain, avgLoss, <<>>))

calculateMACD(prices, fastPeriod, slowPeriod, signalPeriod) ==
    LET fastEMA == calculateEMA(prices, fastPeriod)
        slowEMA == calculateEMA(prices, slowPeriod)
    IN  IF fastEMA.null \/ slowEMA.null THEN [null |-> TRUE]
        ELSE LET macdLine == [i \in DOMAIN fastEMA.items |->
                                 Sub(fastEMA.items[i], slowEMA.items[i])]
                 signalLine == calculateEMA(macdLine, signalPeriod)
                 histogram ==
                     IF signalLine.null THEN <<>>
                     ELSE [i \in DOMAIN signalLine.items |->
                             Sub(macdLine[i + (Len(macdLine) - Len(signalLine.items))],
                                 signalLine.items[i])]
             IN  [null |-> FALSE, macd |-> Arr(macdLine), signal |-> signalLine,
                  histogram |-> Arr(histogram)]

calculateStochastic(ohlcData, period, smoothK, smoothD) ==
    IF Len(ohlcData) < period THEN [null |-> TRUE]
    ELSE LET percentK ==
                 [n \in 1..(Len(ohlcData) - period + 1) |->
                    LET slice == SubSeq(ohlcData, n, n + period - 1)
                        high == MathMax([j \in DOMAIN slice |-> slice[j].high])
                        low == MathMin([j \in DOMAIN slice |-> slice[j].low])
                        close == ohlcData[n + period - 1].close
                    IN  Mul(Div(Sub(close, low), Sub(high, low)), Num(100))]
             smoothedK == calculateSMA(percentK, smoothK)
             percentD == IF ~smoothedK.null THEN calculateSMA(smoothedK.items, smoothD)
                         ELSE Null
         IN  [null |-> FALSE, k |-> smoothedK, d |-> percentD]

calculateCCI(ohlcData, period) ==
    IF Len(ohlcData) < period THEN Null
    ELSE LET typicalPrices ==
                 [i \in DOMAIN ohlcData |->
                    Div(Add(Add(ohlcData[i].high, ohlcData[i].low), ohlcData[i].close),
                        Num(3))]
         IN  Arr([n \in 1..(Len(typicalPrices) - period + 1) |->
                    LET slice == SubSeq(typicalPrices, n, n + period - 1)
                        sma == Div(SumNum(slice), Num(period))
                        meanDeviation ==
                            Div(SumNum([j \in DOMAIN slice |-> AbsNum(Sub(slice[j], sma))]),
                                Num(period))
                    IN  Div(Sub(typicalPrices[n + period - 1], sma),
                            Mul(Rat(15, 1000), meanDeviation))])

\* currentCluster.reduce((a, b) => a + b, 0) / currentCluster.length
ClusterAverage(currentCluster) == Div(SumNum(currentCluster), Num(Len(currentCluster)))

\* the loop of clusterLevels from index i on: a level less than 2% above
\* the level before it joins the current cluster
RECURSIVE ClusterLoop(_, _, _, _)
ClusterLoop(sorted, i, currentCluster, clustered) ==
    IF i > Len(sorted) THEN Append(clustered, ClusterAverage(currentCluster))
    ELSE IF Lt(Div(Sub(sorted[i], sorted[i - 1]), sorted[i - 1]), Rat(2, 100))
    THEN ClusterLoop(sorted, i + 1, Append(currentCluster, sorted[i]), clustered)
    ELSE ClusterLoop(sorted, i + 1, <<sorted[i]>>,
                     Append(clustered, ClusterAverage(currentCluster)))

\* the closure clusterLevels of calculateSupportResistance
clusterLevels(levels) ==
    IF Len(levels) = 0 THEN <<>>
    ELSE LET sorted == SortSeq(levels, LAMBDA a, b : Lt(a, b))
         IN  ClusterLoop(sorted, 2, <<sorted[1]>>, <<>>)

\* the highs that are local maxima (or the lows that are local minima) of
\* recentData, in the order of the bars
LocalExtrema(recentData, isResistance) ==
    LET level(i) == IF isResistance THEN recentData[i].high ELSE recentData[i].low
        beyond(x, y) == IF isResistance THEN Gt(x, y) ELSE Lt(x, y)
        found == SelectSeq([i \in 1..Len(recentData) |-> i],
                           LAMBDA j : /\ j >= 3 /\ j <= Len(recentData) - 2
                                      /\ beyond(level(j), level(j - 1))
                                      /\ beyond(level(j), level(j - 2))
                                      /\ beyond(level(j), level(j + 1))
                                      /\ beyond(level(j), level(j + 2)))
    IN  [n \in DOMAIN found |-> level(found[n])]

\* no result of calculateSupportResistance
NoLevels == [null |-> TRUE, resistance |-> <<>>, support |-> <<>>]

calculateSupportResistance(ohlcData, lookback) ==
    IF Len(ohlcData) < lookback THEN NoLevels
    ELSE LET recentData == SubSeq(ohlcData, Len(ohlcData) - lookback + 1, Len(ohlcData))
             resistance == clusterLevels(LocalExtrema(recentData, TRUE))
             support == clusterLevels(LocalExtrema(recentData, FALSE))
         IN  [null |-> FALSE,
              resistance |-> SubSeq(resistance, Max(1, Len(resistance) - 2), Len(resistance)),
              support |-> SubSeq(support, 1, Min(3, Len(support)))]

\* the sum of f[lo..hi]
RECURSIVE SumRange(_, _, _)
SumRange(f, lo, hi) ==
    IF lo > hi THEN 0
    ELSE IF lo = hi THEN f[lo]
    ELSE SumRange(f, lo, (lo + hi) \div 2) + SumRange(f, (lo + hi) \div 2 + 1, hi)

\* obv[0] is the first volume; each later bar adds its volume when its close
\* is above the close before it, subtracts it when below
calculateOBV(ohlcData) ==
    IF Len(ohlcData) < 2 THEN Null
    ELSE LET signed == [i \in 1..Len(ohlcData) |->
                 IF i = 1 THEN OrZero(ohlcData[1].volume)
                 ELSE IF ohlcData[i].close > ohlcData[i - 1].close
                 THEN OrZero(ohlcData[i].volume)
                 ELSE IF ohlcData[i].close < ohlcData[i - 1].close
                 THEN 0 - OrZero(ohlcData[i].volume)
                 ELSE 0]
         IN  Arr([i \in 1..Len(ohlcData) |-> SumRange(signed, 1, i)])

calculateVolumeMA(volumes, period) == calculateSMA(volumes, period)

(***************************************************************************)
(* The indicators on inputs of every length around their minimum: short    *)
(* arrays of a few prices, and flat, rising and zigzag series              *)
(***************************************************************************)
MaxLen == 4
ExtraBars == 4
SmaPrices == {10, 12, 18}
Patterns == {"flat", "rising", "wave"}

PriceAt(pattern, i) ==
    CASE pattern = "flat" -> 100
      [] pattern = "rising" -> 100 + i
      [] pattern = "wave" -> 100 + Wave[(i % 6) + 1]

PricesOf(pattern, length) == [i \in 1..length |-> PriceAt(pattern, i)]

\* bars around the prices; a flat series has bars of no range
BarsOf(pattern, length) ==
    [i \in 1..length |->
        LET spread == IF pattern = "flat" THEN 0 ELSE 5
        IN  [high |-> PriceAt(pattern, i) + spread,
             low |-> PriceAt(pattern, i) - spread,
             close |-> PriceAt(pattern, i)]]

NumBars(bars) ==
    [i \in DOMAIN bars |->
        [high |-> Num(bars[i].high), low |-> Num(bars[i].low), close |-> Num(bars[i].close)]]

\* the lengths from one below a minimum on
Around(minimum) == (minimum - 1)..(minimum + ExtraBars)

SmaCalls ==
    {[fn |-> "calculateSMA", prices |-> prices, period |-> period] :
        prices \in SeqsUpTo(SmaPrices, MaxLen) \cup {<<10, 12, 14, 16, 18>>},
        period \in 1..(MaxLen + 1)}
EmaCalls ==
    {[fn |-> "calculateEMA", prices |-> PricesOf(pattern, length), period |-> period] :
        pattern \in Patterns, length \in 0..MaxLen, period \in 1..3}
\* period = 14 is the default
RsiCalls ==
    {[fn |-> "calculateRSI", prices |-> PricesOf(pattern, length), period |-> 14] :
        pattern \in Patterns, length \in Around(15)}
      \cup {[fn |-> "calculateRSI", prices |-> prices, period |-> 2] :
              prices \in SeqsUpTo(SmaPrices, MaxLen)}
\* fastPeriod = 12, slowPeriod = 26, signalPeriod = 9 are the defaults
MacdCalls ==
    {[fn |-> "calculateMACD", prices |-> PricesOf("flat", length),
      fastPeriod |-> 12, slowPeriod |-> 26, signalPeriod |-> 9] : length \in Around(26)}
      \cup {[fn |-> "calculateMACD", prices |-> PricesOf(pattern, length),
             fastPeriod |-> 2, slowPeriod |-> 3, signalPeriod |-> 2] :
              pattern \in Patterns, length \in 0..(MaxLen + 1)}
\* period = 14, smoothK = 3, smoothD = 3 are the defaults
StochasticCalls ==
    {[fn |-> "calculateStochastic", ohlcData |-> BarsOf(pattern, length),
      period |-> 14, smoothK |-> 3, smoothD |-> 3] :
        pattern \in Patterns, length \in Around(14)}
\* period = 20 is the default
CciCalls ==
    {[fn |-> "calculateCCI", ohlcData |-> BarsOf(pattern, length), period |-> 20] :
        pattern \in Patterns, length \in Around(20)}

IndicatorCalls ==
    SmaCalls \cup EmaCalls \cup RsiCalls \cup MacdCalls \cup StochasticCalls \cup CciCalls

call_calculateSMA ==
    /\ args.fn = "calculateSMA"
    /\ Return(calculateSMA(Nums(args.prices), args.period))

call_calculateEMA ==
    /\ args.fn = "calculateEMA"
    /\ Return(calculateEMA(Nums(args.prices), args.period))

call_calculateRSI ==
    /\ args.fn = "calculateRSI"
    /\ Return(calculateRSI(Nums(args.prices), args.period))

call_calculateMACD ==
    /\ args.fn = "calculateMACD"
    /\ Return(calculateMACD(Nums(args.prices), args.fastPeriod, args.slowPeriod,
                            args.signalPeriod))

call_calculateStochastic ==
    /\ args.fn = "calculateStochastic"
    /\ Return(calculateStochastic(NumBars(args.ohlcData), args.period, args.smoothK,
                                  args.smoothD))

call_calculateCCI ==
    /\ args.fn = "calculateCCI"
    /\ Return(calculateCCI(NumBars(args.ohlcData), args.period))

IndicatorNext ==
    \/ call_calculateSMA
    \/ call_calculateEMA
    \/ call_calculateRSI
    \/ call_calculateMACD
    \/ call_calculateStochastic
    \/ call_calculateCCI

IndicatorSpec == PureInit(IndicatorCalls) /\ [][IndicatorNext]_vars

(***************************************************************************)
(* The scoring of generatePrediction.  An analyzer reads the last value of *)
(* each indicator; a value is absent when the indicator is null.  Scores   *)
(* are in hundredths, the composite score in ten-thousandths.              *)
(***************************************************************************)
None == [some |-> FALSE, v |-> 0]
Some(v) == [some |-> TRUE, v |-> v]
Opt(S) == {None} \cup {Some(v) : v \in S}

\* Math.max(-1, Math.min(1, score))
Clamp(score) == Max(-100, Min(100, score))

analyzeTrend(values, currentPrice) ==
    LET sma20 == values.sma20.v
        sma50 == values.sma50.v
        sma200 == values.sma200.v
        averages ==
            IF values.sma20.some /\ values.sma50.some /\ values.sma200.some
            THEN (IF currentPrice > sma20 THEN 20 ELSE -20)
                   + (IF currentPrice > sma50 THEN 15 ELSE -15)
                   + (IF sma50 > sma200 THEN 25 ELSE IF sma50 < sma200 THEN -25 ELSE 0)
                   + (IF sma20 > sma50 /\ sma50 > sma200 THEN 20
                      ELSE IF sma20 < sma50 /\ sma50 < sma200 THEN -20 ELSE 0)
            ELSE 0
        strength ==
            IF values.adx.some /\ values.adx.v > 25
            THEN (IF values.plusDI > values.minusDI THEN 20 ELSE -20)
            ELSE 0
    IN  [score |-> Clamp(averages + strength), volatilityLevel |-> "", threw |-> FALSE]

analyzeMomentum(values) ==
    LET rsi == values.rsi.v
        current == values.histogram.v[2]
        previous == values.histogram.v[1]
        k == values.k.v
        cci == values.cci.v
        ofRsi == IF ~values.rsi.some THEN 0
                 ELSE IF rsi < 30 THEN 30
                 ELSE IF rsi > 70 THEN -30
                 ELSE IF rsi > 50 /\ rsi < 70 THEN 10
                 ELSE IF rsi < 50 /\ rsi > 30 THEN -10
                 ELSE 0
        ofMacd == IF ~values.histogram.some THEN 0
                  ELSE IF current > 0 THEN 20 + (IF current > previous THEN 10 ELSE 0)
                  ELSE -20 - (IF current < previous THEN 10 ELSE 0)
        ofStochastic == IF ~values.k.some THEN 0
                        ELSE IF k < 20 THEN 20 ELSE IF k > 80 THEN -20 ELSE 0
        ofCci == IF ~values.cci.some THEN 0
                 ELSE IF cci < -100 THEN 15 ELSE IF cci > 100 THEN -15 ELSE 0
    IN  [score |-> Clamp(ofRsi + ofMacd + ofStochastic + ofCci), volatilityLevel |-> "",
         threw |-> FALSE]

analyzeVolatility(values) ==
    LET vol == values.volatility.v
    IN  [score |-> 0,
         volatilityLevel |->
            IF ~values.volatility.some THEN "medium"
            ELSE IF vol > 100 THEN "very high"
            ELSE IF vol > 70 THEN "high"
            ELSE IF vol > 40 THEN "medium"
            ELSE "low",
         threw |-> FALSE]

\* xs.slice(-n)
LastN(xs, n) == SubSeq(xs, Max(1, Len(xs) - n + 1), Len(xs))

RECURSIVE SumInts(_)
SumInts(xs) == IF xs = <<>> THEN 0 ELSE xs[1] + SumInts(Tail(xs))

\* avgVol is a sum over 20: currentVol > avgVol * 2 is currentVol * 20 >
\* sum * 2, and so on
analyzeVolume(values) ==
    LET volumes == values.volumeMA
        currentVol == volumes[Len(volumes)]
        sum == SumInts(LastN(volumes, 20))
        obvTrend == LastN(values.obv, 10)
        obvIncreasing == obvTrend[Len(obvTrend)] > obvTrend[1]
    IN  [score |->
            IF values.present
            THEN Clamp((IF currentVol * 20 > sum * 2 THEN 30
                        ELSE IF currentVol * 40 > sum * 3 THEN 15
                        ELSE IF currentVol * 40 < sum THEN -10
                        ELSE 0)
                       + (IF obvIncreasing THEN 20 ELSE -20))
            ELSE 0,
         volatilityLevel |-> "", threw |-> FALSE]

\* levels.reduce((prev, curr) => |curr - price| < |prev - price| ? curr : prev, levels[0])
RECURSIVE Nearest(_, _, _)
Nearest(levels, currentPrice, prev) ==
    IF levels = <<>> THEN prev
    ELSE Nearest(Tail(levels), currentPrice,
                 IF Abs(Head(levels) - currentPrice) < Abs(prev - currentPrice)
                 THEN Head(levels) ELSE prev)

\* a distance in percent below 2 is distance * 100 < 2 * currentPrice; with
\* an empty support or resistance array the nearest level is undefined and
\* nearestSupport.toFixed throws
analyzeSupportResistance(values, currentPrice) ==
    IF ~values.present THEN [score |-> 0, volatilityLevel |-> "", threw |-> FALSE]
    ELSE IF values.support = <<>> \/ values.resistance = <<>>
    THEN [score |-> 0, volatilityLevel |-> "", threw |-> TRUE]
    ELSE LET nearestSupport ==
                 Nearest(values.support, currentPrice, values.support[1])
             nearestResistance ==
                 Nearest(values.resistance, currentPrice, values.resistance[1])
         IN  [score |->
                 Clamp((IF (currentPrice - nearestSupport) * 100 < 2 * currentPrice
                        THEN 30 ELSE 0)
                       - (IF (nearestResistance - currentPrice) * 100 < 2 * currentPrice
                          THEN 30 ELSE 0)),
              volatilityLevel |-> "", threw |-> FALSE]

\* this.indicatorWeights, in hundredths
indicatorWeights ==
    [trend |-> 25, momentum |-> 20, volatility |-> 15, volume |-> 15,
     support_resistance |-> 15, patterns |-> 10]

\* a composite score that is divided by the sum of the five weights
compositeScore_Renormalized(signals) ==
    (100 * (signals[1].score * indicatorWeights.trend
              + signals[2].score * indicatorWeights.momentum
              + signals[3].score * indicatorWeights.volatility
              + signals[4].score * indicatorWeights.volume
              + signals[5].score * indicatorWeights.support_resistance)) \div 90

\* the composite score of the five category results, in their order
compositeScore(signals) ==
    signals[1].score * indicatorWeights.trend
      + signals[2].score * indicatorWeights.momentum
      + signals[3].score * indicatorWeights.volatility
      + signals[4].score * indicatorWeights.volume
      + signals[5].score * indicatorWeights.support_resistance

(***************************************************************************)
(* The scoring steps of one generatePrediction call at a price of 100: the *)
(* analyzers in their order on any indicator values, then the composite    *)
(***************************************************************************)
SCORED_PRICE == 100

TrendInputs ==
    [sma20 : Opt({90, 110}), sma50 : Opt({85, 100, 115}), sma200 : Opt({80, 100, 120}),
     adx : Opt({20, 30}), plusDI : {10, 20}, minusDI : {15}]
MomentumInputs ==
    [rsi : Opt({20, 40, 50, 60, 80}),
     histogram : {[some |-> FALSE, v |-> <<0, 0>>]}
                   \cup {Some(h) : h \in {<<0, 1>>, <<2, 1>>, <<0, -1>>, <<-2, -1>>}},
     k : Opt({10, 50, 90}),
     cci : Opt({-150, 0, 150})]
VolatilityInputs == [volatility : Opt({30, 50, 80, 120})]
VolumeInputs ==
    {[present |-> FALSE, volumeMA |-> <<>>, obv |-> <<>>]}
      \cup [present : {TRUE},
            volumeMA : {[i \in 1..20 |-> IF i < 20 THEN 10 ELSE last] :
                           last \in {4, 10, 18, 100}},
            obv : {<<0, 5>>, <<5, 0>>, <<5, 5>>}]
SupportResistanceInputs ==
    {[present |-> FALSE, support |-> <<>>, resistance |-> <<>>]}
      \cup [present : {TRUE},
            support : {<<>>, <<90>>, <<99>>, <<90, 99>>, <<101>>},
            resistance : {<<>>, <<110>>, <<101>>, <<101, 110>>}]

ScoringCalls ==
    {[fn |-> "generatePrediction", currentPrice |-> SCORED_PRICE, indicators |-> None,
      signals |-> <<>>]}

\* the next analyzer has returned: its indicators and its result are kept
Analyzed(values, categoryScore) ==
    /\ args.fn = "generatePrediction"
    /\ ~result.returned
    /\ args' = [args EXCEPT !.indicators = values,
                            !.signals = Append(@, categoryScore)]
    /\ result' = IF categoryScore.threw
                 THEN [returned |-> TRUE, value |-> [threw |-> TRUE, compositeScore |-> 0]]
                 ELSE result
    /\ UNCHANGED <<fetcher, now, cryptocurrencies, price_history, indicators, predictions, running,
                   ret>>

score_analyzeTrend ==
    /\ Len(args.signals) = 0
    /\ \E values \in TrendInputs :
          Analyzed(values, analyzeTrend(values, args.currentPrice))

score_analyzeMomentum ==
    /\ Len(args.signals) = 1
    /\ \E values \in MomentumInputs : Analyzed(values, analyzeMomentum(values))

score_analyzeVolatility ==
    /\ Len(args.signals) = 2
    /\ \E values \in VolatilityInputs : Analyzed(values, analyzeVolatility(values))

score_analyzeVolume ==
    /\ Len(args.signals) = 3
    /\ \E values \in VolumeInputs : Analyzed(values, analyzeVolume(values))

score_analyzeSupportResistance ==
    /\ Len(args.signals) = 4
    /\ \E values \in SupportResistanceInputs :
          Analyzed(values, analyzeSupportResistance(values, args.currentPrice))

score_composite ==
    /\ args.fn = "generatePrediction"
    /\ Len(args.signals) = 5
    /\ Return([threw |-> FALSE, compositeScore |-> compositeScore(args.signals)])

ScoringNext ==
    \/ score_analyzeTrend
    \/ score_analyzeMomentum
    \/ score_analyzeVolatility
    \/ score_analyzeVolume
    \/ score_analyzeSupportResistance
    \/ score_composite

ScoringSpec == PureInit(ScoringCalls) /\ [][ScoringNext]_vars

(***************************************************************************)
(* generateProbabilityDistribution on every composite score in hundredths  *)
(* from -1 to 1, every volatility level, one that analyzeVolatility does   *)
(* not return included, and prices of which the range bounds are whole     *)
(***************************************************************************)
DistributionScores == -100..100
DistributionLevels == {"very high", "high", "medium", "low", "extreme"}
DistributionPrices == {2000, 50000}
DistributionCalls ==
    {[fn |-> "generateProbabilityDistribution", compositeScore |-> score,
      volatilityLevel |-> level, currentPrice |-> price] :
        score \in DistributionScores, level \in DistributionLevels,
        price \in DistributionPrices}

call_generateProbabilityDistribution ==
    /\ args.fn = "generateProbabilityDistribution"
    /\ Return(generateProbabilityDistribution(args.compositeScore, args.volatilityLevel,
                                              args.currentPrice))

DistributionNext == call_generateProbabilityDistribution

DistributionSpec == PureInit(DistributionCalls) /\ [][DistributionNext]_vars

(***************************************************************************)
(* clusterLevels on any array of a few raw levels: 100, 101 and 103 form a *)
(* chain, 100 and 102 are exactly 2% apart, 110 is far from all            *)
(***************************************************************************)
MaxLevels == 3
RawLevels == {100, 101, 102, 103, 110}
ClusterCalls ==
    {[fn |-> "clusterLevels", levels |-> levels] : levels \in SeqsUpTo(RawLevels, MaxLevels)}

call_clusterLevels ==
    /\ args.fn = "clusterLevels"
    /\ Return(clusterLevels(Nums(args.levels)))

ClusterNext == call_clusterLevels

ClusterSpec == PureInit(ClusterCalls) /\ [][ClusterNext]_vars

(***************************************************************************)
(* calculateSupportResistance and then analyzeSupportResistance, as        *)
(* getAnalysis and generatePrediction call them, on 50 and 51 bars of no   *)
(* range at 100 with up to two peaks and a trough, more than 2% from each  *)
(* other, and any last close                                               *)
(***************************************************************************)
BASE_PRICE == 100
FirstPeaks == {100, 101, 110}
SecondPeaks == {100, 105}
Troughs == {100, 99, 90}
LastCloses == {85, 100, 115}

LevelBars(length, firstPeak, secondPeak, trough, lastClose) ==
    [i \in 1..length |->
        LET price == CASE i = 10 -> firstPeak
                       [] i = 20 -> secondPeak
                       [] i = 30 -> trough
                       [] i = length -> lastClose
                       [] OTHER -> BASE_PRICE
        IN  [high |-> price, low |-> price, close |-> price]]

SupportResistanceCalls ==
    {[fn |-> "analyzeSupportResistance",
      ohlcData |-> LevelBars(length, firstPeak, secondPeak, trough, lastClose),
      computed |-> FALSE, supportResistance |-> NoLevels] :
        length \in {LOOKBACK, LOOKBACK + 1}, firstPeak \in FirstPeaks,
        secondPeak \in SecondPeaks, trough \in Troughs, lastClose \in LastCloses}

\* a level of the bars above: a whole price
WholePrice(x) == x.n \div x.d

\* indicators.supportResistance as analyzeSupportResistance reads it
LevelsOf(supportResistance) ==
    [present |-> ~supportResistance.null,
     support |-> [n \in DOMAIN supportResistance.support |->
                     WholePrice(supportResistance.support[n])],
     resistance |-> [n \in DOMAIN supportResistance.resistance |->
                        WholePrice(supportResistance.resistance[n])]]

\* getAnalysis: indicators.supportResistance
levels_calculateSupportResistance ==
    /\ args.fn = "analyzeSupportResistance"
    /\ ~args.computed
    /\ args' = [args EXCEPT !.computed = TRUE,
                            !.supportResistance =
                                calculateSupportResistance(NumBars(args.ohlcData), LOOKBACK)]
    /\ UNCHANGED <<fetcher, now, cryptocurrencies, price_history, indicators, predictions, running,
                   ret, result>>

\* generatePrediction: supportResistanceScore, at the last close
levels_analyzeSupportResistance ==
    /\ args.fn = "analyzeSupportResistance"
    /\ args.computed
    /\ Return(analyzeSupportResistance(LevelsOf(args.supportResistance),
                                       args.ohlcData[Len(args.ohlcData)].close))

SupportResistanceNext ==
    \/ levels_calculateSupportResistance
    \/ levels_analyzeSupportResistance

SupportResistanceSpec == PureInit(SupportResistanceCalls) /\ [][SupportResistanceNext]_vars

(***************************************************************************)
(* The request queue of the DataFetcher under any arrival of requests and  *)
(* any outcome of the HTTP calls                                           *)
(***************************************************************************)
FetcherNext ==
    \/ coinGeckoRequest
    \/ \E i \in DOMAIN fetcher.loops : wake_interval(i)
    \/ \E i \in DOMAIN fetcher.loops, succeeds \in BOOLEAN, duration \in Durations :
          http_response(i, succeeds, duration)
    \/ \E i \in DOMAIN fetcher.loops : wake_delay(i)
    \/ \E time \in IdleTimes : Elapse(time)

FetcherSpec == Init /\ [][FetcherNext]_vars

\* a timer that was set fires, and axios.get (timeout: 10000) settles
FairFetcherSpec ==
    /\ FetcherSpec
    /\ WF_vars(\E i \in DOMAIN fetcher.loops : wake_interval(i))
    /\ WF_vars(\E i \in DOMAIN fetcher.loops, succeeds \in BOOLEAN, duration \in Durations :
                  http_response(i, succeeds, duration))
    /\ WF_vars(\E i \in DOMAIN fetcher.loops : wake_delay(i))

(***************************************************************************)
(* The accuracy tracking of the engine's own predictions: the engine       *)
(* forecasts at the latest price of the history and saves the forecast,    *)
(* the listed price moves, the sweep evaluates                             *)
(***************************************************************************)
TRACKED_PRICE == 2000
TrackedScores == {-60, -30, 0, 30, 60}
LaterPrices == {1980, 2000, 2020}

\* generatePrediction for btc from its scoring on, in a calm market
tracked_generatePrediction ==
    /\ predictions = <<>>
    /\ OriginalPrice("btc", now) # NULL
    /\ \E score \in TrackedScores :
          predictions' = savePredictionForTracking("btc",
              generateProbabilityDistribution(score, "low", OriginalPrice("btc", now)),
              now, 0)
    /\ ret' = NoRet
    /\ UNCHANGED <<fetcher, now, cryptocurrencies, price_history, indicators, running, args,
                   result>>

TrackingNext ==
    \/ Tick
    \/ /\ price_history = {}
       /\ insertPriceHistory("btc", now, TRACKED_PRICE, VOLUME, MARKET_CAP)
    \/ tracked_generatePrediction
    \/ \E price \in LaterPrices : upsertCryptocurrency("btc", price)
    \/ evaluatePredictions

TrackingSpec == Init /\ [][TrackingNext]_vars

(***************************************************************************)
(* The volume indicators of getAnalysis and then analyzeVolume, on 50 and  *)
(* 51 bars of one volume with any last volume and closes that fall, stay   *)
(* or rise.  The volumes are multiples of 20: every average is whole.      *)
(***************************************************************************)
BaseVolumes == {100, 180}
LastVolumes == {20, 100, 200, 380, 400}
CloseTrends == {-1, 0, 1}

VolumeBars(length, baseVolume, lastVolume, trend) ==
    [i \in 1..length |->
        [close |-> 200 + trend * i,
         volume |-> IF i = length THEN lastVolume ELSE baseVolume]]

VolumeCalls ==
    {[fn |-> "analyzeVolume",
      ohlcData |-> VolumeBars(length, baseVolume, lastVolume, trend),
      computed |-> FALSE, volumeMA |-> <<>>, obv |-> <<>>] :
        length \in {MIN_BARS, MIN_BARS + 1}, baseVolume \in BaseVolumes,
        lastVolume \in LastVolumes, trend \in CloseTrends}

\* getAnalysis: volumes, indicators.volumeMA and indicators.obv
volume_indicators ==
    /\ args.fn = "analyzeVolume"
    /\ ~args.computed
    /\ LET volumes == [i \in DOMAIN args.ohlcData |-> args.ohlcData[i].volume]
           volumeMA == calculateVolumeMA(Nums(volumes), 20).items
       IN  args' = [args EXCEPT !.computed = TRUE,
                                !.volumeMA = [i \in DOMAIN volumeMA |-> WholePrice(volumeMA[i])],
                                !.obv = calculateOBV(args.ohlcData).items]
    /\ UNCHANGED <<fetcher, now, cryptocurrencies, price_history, indicators, predictions,
                   running, ret, result>>

\* generatePrediction: volumeScore
volume_analyzeVolume ==
    /\ args.fn = "analyzeVolume"
    /\ args.computed
    /\ Return(analyzeVolume([present |-> TRUE, volumeMA |-> args.volumeMA, obv |-> args.obv]))

VolumeNext ==
    \/ volume_indicators
    \/ volume_analyzeVolume

VolumeSpec == PureInit(VolumeCalls) /\ [][VolumeNext]_vars

(***************************************************************************)
(* Claims about the store (checked under Spec)                             *)
(***************************************************************************)
IsPending(p) == p.evaluated_at = NULL
IsSweep(r) == r.op = "evaluatePredictions"

PredictedFields(p) ==
    <<p.crypto_id, p.created_at, p.prediction_type, p.timeframe, p.predicted_direction,
      p.predicted_probability, p.predicted_price_range_low,
      p.predicted_price_range_high, p.confidence_level>>

OutcomeUnset(p) ==
    /\ p.actual_direction = NULLSTR
    /\ p.actual_price = NULL
    /\ p.was_accurate = NULL
    /\ p.evaluated_at = NULL

C1_Step ==
    \A id \in DOMAIN predictions :
        /\ id \in DOMAIN predictions'
        /\ PredictedFields(predictions'[id]) = PredictedFields(predictions[id])
        /\ ~IsPending(predictions[id]) =>
              /\ predictions'[id] = predictions[id]
              /\ IsSweep(ret') => id \notin ret'.selected

\* C1: a prediction row is pending, with no outcome column set, until a
\* sweep evaluates it; an evaluated row is never selected or modified by a
\* later sweep; the predicted columns of a row never change.
C1_Lifecycle ==
    /\ [](\A id \in DOMAIN predictions :
            IsPending(predictions[id]) => OutcomeUnset(predictions[id]))
    /\ [][C1_Step]_vars

\* a sweep has run over a row that an earlier sweep evaluated, after the
\* asset's current price changed
C1_Witness ==
    /\ IsSweep(ret)
    /\ \E id \in DOMAIN predictions :
          /\ ~IsPending(predictions[id])
          /\ id \notin ret.selected
          /\ predictions[id].actual_price
                # cryptocurrencies[predictions[id].crypto_id].current_price

\* the reference price in the claims' words: the price of the latest
\* price_history row of the asset at or before created_at
HasReferencePrice(p) ==
    \E r \in price_history : r.crypto_id = p.crypto_id /\ r.timestamp <= p.created_at

\* C2: after a sweep at time now, every prediction of a listed asset with
\* a reference price and created_at + timeframe <= now is evaluated.
C2_DueIsEvaluated ==
    IsSweep(ret) =>
        \A id \in DOMAIN predictions :
            LET p == predictions[id]
            IN  (/\ cryptocurrencies[p.crypto_id].present
                 /\ HasReferencePrice(p)
                 /\ p.created_at + p.timeframe <= now) => ~IsPending(p)

\* C3: an evaluated row has was_accurate = 1 exactly when its recorded
\* actual_direction is its predicted_direction and its recorded actual_price
\* lies in its predicted price range.
C3_AccurateIff ==
    \A id \in DOMAIN predictions :
        LET p == predictions[id]
        IN  ~IsPending(p) =>
              (p.was_accurate = 1 <=>
                 /\ p.actual_direction = p.predicted_direction
                 /\ p.actual_price >= p.predicted_price_range_low
                 /\ p.actual_price <= p.predicted_price_range_high)

C4_Step ==
    \A id \in DOMAIN predictions :
        (IsPending(predictions[id]) /\ ~IsPending(predictions'[id])) =>
            \E r \in price_history :
                /\ r.crypto_id = predictions[id].crypto_id
                /\ r.timestamp <= predictions[id].created_at
                /\ \A q \in price_history :
                      (q.crypto_id = r.crypto_id /\ q.timestamp <= predictions[id].created_at)
                          => q.timestamp <= r.timestamp
                /\ LET actual == cryptocurrencies[predictions[id].crypto_id].current_price
                   IN  /\ predictions'[id].actual_price = actual
                       /\ predictions'[id].actual_direction =
                             IF actual > r.price THEN "up"
                             ELSE IF actual < r.price THEN "down" ELSE "neutral"

\* C4: the sweep that evaluates a row records the asset's current price as
\* actual_price and, as actual_direction, 'up', 'down' or 'neutral' as that
\* price is above, below or equal to the latest price_history price of the
\* asset at or before created_at.
C4_ActualDirection == [][C4_Step]_vars

C6_Step ==
    \A id \in DOMAIN predictions :
        predictions[id].created_at + predictions[id].timeframe > now =>
            /\ predictions'[id] = predictions[id]
            /\ IsSweep(ret') => id \notin ret'.selected

\* C6: no step, and so no sweep interleaved with insertions, selects or
\* changes a row whose timeframe has not elapsed (created_at + timeframe >
\* now); such a row is pending with no outcome column set, and every
\* evaluated row was evaluated at or after created_at + timeframe.
C6_NotDueUntouched ==
    /\ [](\A id \in DOMAIN predictions :
            LET p == predictions[id]
            IN  /\ p.created_at + p.timeframe > now => OutcomeUnset(p)
                /\ ~IsPending(p) => p.created_at + p.timeframe <= p.evaluated_at)
    /\ [][C6_Step]_vars

\* a sweep evaluated one row and left alone a row inserted at the sweep time,
\* whose asset is listed and has a reference price
C6_Witness ==
    /\ IsSweep(ret)
    /\ \E id \in ret.selected : predictions[id].evaluated_at = now
    /\ \E id \in DOMAIN predictions :
          /\ predictions[id].created_at = now
          /\ cryptocurrencies[predictions[id].crypto_id].present
          /\ HasReferencePrice(predictions[id])
          /\ id \notin ret.selected
          /\ OutcomeUnset(predictions[id])

(***************************************************************************)
(* Claims about the accuracy statistics (checked under AccuracySpec)       *)
(***************************************************************************)
IsAccuracy(r) == r.op = "getHistoricalAccuracy"

EvaluatedIds == {id \in DOMAIN predictions : ~IsPending(predictions[id])}
AccurateOf(ids) == {id \in ids : predictions[id].was_accurate = 1}
OfTimeframe(tf) == {id \in EvaluatedIds : predictions[id].timeframe = tf}
OfLast30Days == {id \in EvaluatedIds : now - predictions[id].created_at <= THIRTY_DAYS}

\* h hundredths is 100 * a / t rounded to two decimals
IsRounded(h, a, t) ==
    /\ 2 * h * t - 20000 * a > 0 - t
    /\ 2 * h * t - 20000 * a <= t

\* the numbers reported for the evaluated rows ids
Reports(total, accurate, percentage, ids) ==
    /\ total = Cardinality(ids)
    /\ IF ids = {}
       THEN accurate = NULL /\ percentage = NULL
       ELSE /\ accurate = Cardinality(AccurateOf(ids))
            /\ accurate <= total
            /\ IsRounded(percentage, accurate, total)

\* C7 (amended): getHistoricalAccuracy counts evaluated rows only; for a
\* slice (overall, one timeframe, created in the trailing 30 days) with at
\* least one evaluated row it reports total, accurate <= total and
\* accuracy_percentage = round(100 * accurate / total, 2); for a slice with
\* none it reports total 0 with accurate and accuracy_percentage NULL
\* (and no byTimeframe group); one accurate evaluated row reports 100.0.
C7_Accuracy ==
    IsAccuracy(ret) =>
        LET acc == ret.accuracy
        IN  /\ Reports(acc.overall.total_predictions, acc.overall.accurate_predictions,
                       acc.overall.accuracy_percentage, EvaluatedIds)
            /\ Reports(acc.last30Days.total, acc.last30Days.accurate,
                       acc.last30Days.accuracy_percentage, OfLast30Days)
            /\ \A g \in acc.byTimeframe :
                  /\ OfTimeframe(g.timeframe) # {}
                  /\ Reports(g.total, g.accurate, g.accuracy_percentage,
                             OfTimeframe(g.timeframe))
            /\ \A tf \in {SHORT_TERM_TIMEFRAME, MEDIUM_TERM_TIMEFRAME} :
                  OfTimeframe(tf) # {} =>
                      Cardinality({g \in acc.byTimeframe : g.timeframe = tf}) = 1
            /\ (Cardinality(EvaluatedIds) = 1 /\ AccurateOf(EvaluatedIds) # {}) =>
                  acc.overall.accuracy_percentage = 10000

\* the statistics were read with a pending row, an accurate and an
\* inaccurate evaluated row of different timeframes in the table
C7_Witness ==
    /\ IsAccuracy(ret)
    /\ \E id \in DOMAIN predictions : IsPending(predictions[id])
    /\ AccurateOf(OfTimeframe(SHORT_TERM_TIMEFRAME)) # {}
    /\ OfTimeframe(MEDIUM_TERM_TIMEFRAME) \ AccurateOf(EvaluatedIds) # {}

\* C7 as stated: accurate is the number of evaluated rows with
\* was_accurate = 1, in every slice
C7_AccurateIsACount ==
    IsAccuracy(ret) =>
        /\ ret.accuracy.overall.accurate_predictions = Cardinality(AccurateOf(EvaluatedIds))
        /\ ret.accuracy.last30Days.accurate = Cardinality(AccurateOf(OfLast30Days))

(***************************************************************************)
(* Claims about the application (checked under AppSpec)                    *)
(***************************************************************************)
\* "Evaluate predictions: Every 1 hour"
SWEEP_PERIOD == 60

\* C5: while the application runs, a sweep runs every hour, so a saved
\* prediction of a listed asset with a reference price is evaluated at the
\* latest one sweep period after its timeframe has elapsed.
C5_SweptEveryHour ==
    \A id \in DOMAIN predictions :
        LET p == predictions[id]
        IN  (/\ cryptocurrencies[p.crypto_id].present
             /\ HasReferencePrice(p)
             /\ p.created_at + p.timeframe + SWEEP_PERIOD <= now) => ~IsPending(p)

\* the number of hourly bars of a price history, counted by the hours
BarCount(priceHistory) ==
    Cardinality({priceHistory[i].timestamp \div HOUR : i \in DOMAIN priceHistory})

C8_Step ==
    \A task \in running :
        (/\ task.stage = "getAnalysis"
         /\ BarCount(task.priceHistory) < 50
         /\ running' # running) =>
            /\ indicators' = indicators
            /\ predictions' = predictions
            /\ task.handler = "get-prediction" =>
                  running' = {} /\ ret'.op = "generatePrediction"
            /\ task.handler # "get-prediction" => ret'.op = "getAnalysis"
            /\ ret'.asset = task.asset
            /\ ret'.value = NULL

\* C8: a run of getAnalysis or generatePrediction that read a price history
\* of fewer than 50 hourly bars returns null, adds no row to indicators and
\* no row to predictions, and (generatePrediction) has nothing left to do.
C8_NullPersistsNothing == [][C8_Step]_vars

\* generatePrediction returned null for an asset with 49 hourly points, all
\* within the 90 days, and both tables are empty
C8_Witness ==
    /\ ret.op = "generatePrediction"
    /\ ret.value = NULL
    /\ ret.error = ""
    /\ Len(getPriceHistory(ret.asset, ANALYSIS_DAYS, now)) = 49
    /\ BarCount(getPriceHistory(ret.asset, ANALYSIS_DAYS, now)) = 49
    /\ indicators = <<>>
    /\ predictions = <<>>

\* C9: a generatePrediction run in which saveIndicator or savePrediction
\* threw (so the asset had at least 50 bars) returns a forecast, not null.
C9_FailedSaveIsNotFatal ==
    (ret.op = "generatePrediction" /\ ret.error \in {"saveIndicator", "savePrediction"})
        => ret.value # NULL

\* C10: no two recomputations of one asset are in progress at once, and no
\* two rows of indicators have the same asset, indicator and timestamp.
C10_OneSnapshotPerTimestamp ==
    /\ \A t1 \in running, t2 \in running : t1.asset = t2.asset => t1 = t2
    /\ \A i \in DOMAIN indicators, j \in DOMAIN indicators :
          (/\ indicators[i].crypto_id = indicators[j].crypto_id
           /\ indicators[i].indicator_type = indicators[j].indicator_type
           /\ indicators[i].timestamp = indicators[j].timestamp) => i = j

\* a step in which a generatePrediction call returns to its caller
ReturnsPrediction == running' # running /\ ret'.op = "generatePrediction"

\* row is a pending row of the asset for the type and its timeframe in
\* minutes (86,400,000 ms and 604,800,000 ms), created at the clock reading
IsTracked(row, asset, type, minutes) ==
    /\ row.crypto_id = asset
    /\ row.prediction_type = type
    /\ row.timeframe = minutes
    /\ row.created_at = now
    /\ OutcomeUnset(row)

NewRows == SubSeq(predictions', Len(predictions) + 1, Len(predictions'))

C11_Step ==
    /\ predictions' # predictions => ReturnsPrediction
    /\ ReturnsPrediction =>
          /\ SubSeq(predictions', 1, Len(predictions)) = predictions
          /\ ret'.value = NULL => predictions' = predictions
          /\ (ret'.value # NULL /\ ret'.error = "") =>
                /\ Len(NewRows) = 2
                /\ IsTracked(NewRows[1], ret'.asset, "short_term", 1440)
                /\ IsTracked(NewRows[2], ret'.asset, "medium_term", 10080)
                /\ NewRows[1].predicted_direction = NewRows[2].predicted_direction
          /\ (ret'.value # NULL /\ ret'.error = "savePrediction") =>
                /\ Len(NewRows) <= 1
                /\ Len(NewRows) = 1 =>
                      IsTracked(NewRows[1], ret'.asset, "short_term", 1440)

\* C11 (amended): a generatePrediction call that returns a forecast and in
\* which no savePrediction threw has added exactly one pending short-term
\* row (86,400,000 ms) and one pending medium-term row (604,800,000 ms) of
\* the asset, with the same direction; one in which savePrediction threw
\* has added nothing or the short-term row only; a call that returns null
\* adds no row; and nothing else adds a prediction row.
C11_PersistsForecast == [][C11_Step]_vars

\* a forecast was returned without a fault and its two rows are the table
C11_Witness ==
    /\ ret.op = "generatePrediction"
    /\ ret.value # NULL
    /\ ret.error = ""
    /\ Len(predictions) = 2
    /\ predictions[1].prediction_type = "short_term"
    /\ predictions[2].prediction_type = "medium_term"
    /\ predictions[1].predicted_direction = "bearish"

C11_OriginalStep ==
    (ReturnsPrediction /\ ret'.value # NULL) =>
        /\ Len(NewRows) = 2
        /\ IsTracked(NewRows[1], ret'.asset, "short_term", 1440)
        /\ IsTracked(NewRows[2], ret'.asset, "medium_term", 10080)

\* C11 as stated: every generatePrediction call that returns a forecast
\* has added exactly one short-term and one medium-term pending row.
C11_EverySuccessPersists == [][C11_OriginalStep]_vars

(***************************************************************************)
(* Claims about the price history, checked under HistorySpec               *)
(***************************************************************************)
SameKey(r, q) == r.crypto_id = q.crypto_id /\ r.timestamp = q.timestamp

C12_Step ==
    /\ \A r \in price_history : r \in price_history'
    /\ \A r, q \in price_history' : SameKey(r, q) => r = q

\* C12: over any sequence of insertPriceHistory calls the table holds at
\* most one row per (asset, timestamp), and a row once inserted keeps its
\* price, volume and market cap whatever the later inserts carry.
C12_StoredPointIsImmutable == [][C12_Step]_vars

\* an insert for a key that already has a row was ignored (changes = 0)
C12_Witness ==
    /\ ret.op = "insertPriceHistory"
    /\ ret.value = 0
    /\ \E r \in price_history : r.crypto_id = ret.asset
    /\ \E r, q \in price_history : r.price # q.price /\ r.volume # q.volume

(***************************************************************************)
(* Claims about constructOHLC, checked under OhlcSpec                      *)
(***************************************************************************)
\* floor(timestamp / 3600000) * 3600000, the clock being in minutes
HourBucket(timestamp) == timestamp - (timestamp % 60)

\* the positions in the input of the points of an hour bucket
InBucket(points, hour) == {j \in DOMAIN points : HourBucket(points[j].timestamp) = hour}

RECURSIVE SumOfVolumes(_, _)
SumOfVolumes(points, positions) ==
    IF positions = {} THEN 0
    ELSE LET j == CHOOSE k \in positions : TRUE
         IN  (IF points[j].volume = NULL THEN 0 ELSE points[j].volume)
               + SumOfVolumes(points, positions \ {j})

IsBarOf(bar, points) ==
    LET positions == InBucket(points, bar.timestamp)
        prices == {points[j].price : j \in positions}
    IN  /\ positions # {}
        /\ bar.open = points[SetMin(positions)].price
        /\ bar.close = points[SetMax(positions)].price
        /\ bar.high \in prices /\ \A x \in prices : x <= bar.high
        /\ bar.low \in prices /\ \A x \in prices : bar.low <= x
        /\ bar.low <= bar.open /\ bar.open <= bar.high
        /\ bar.low <= bar.close /\ bar.close <= bar.high
        /\ bar.volume = SumOfVolumes(points, positions)

\* C13: for any sequence of price points constructOHLC returns exactly one
\* bar per hour bucket that occurs in the input, by strictly ascending
\* timestamp; the open and the close of a bar are the prices of the first
\* and the last point of the bucket in input order, its high and low their
\* greatest and least price (low <= open, close <= high), and its volume
\* the sum of their volumes.
C13_OneBarPerHour ==
    (args.fn = "constructOHLC" /\ result.returned) =>
        LET points == args.priceHistory
            bars == result.value
        IN  /\ {bars[i].timestamp : i \in DOMAIN bars}
                  = {HourBucket(points[j].timestamp) : j \in DOMAIN points}
            /\ \A i \in DOMAIN bars, k \in DOMAIN bars :
                  i < k => bars[i].timestamp < bars[k].timestamp
            /\ \A i \in DOMAIN bars : IsBarOf(bars[i], points)

\* two bars from three points given out of time order: the later hour comes
\* first in the input, and the earlier hour has two points with different
\* prices, the later of them first, one of them without a volume
C13_Witness ==
    /\ args.fn = "constructOHLC"
    /\ result.returned
    /\ Len(args.priceHistory) = 3
    /\ Len(result.value) = 2
    /\ args.priceHistory[1].timestamp > args.priceHistory[2].timestamp
    /\ args.priceHistory[2].timestamp > args.priceHistory[3].timestamp
    /\ result.value[1].open # result.value[1].close
    /\ result.value[1].volume = 5

(***************************************************************************)
(* Claims about the indicators, checked under IndicatorSpec                *)
(***************************************************************************)
IsIndicator == args.fn \in {"calculateSMA", "calculateEMA", "calculateRSI", "calculateMACD",
                            "calculateStochastic", "calculateCCI"}

\* the series a result that is not null holds
SeriesOf(fn, value) ==
    CASE fn = "calculateMACD" -> {value.macd, value.signal, value.histogram}
      [] fn = "calculateStochastic" -> {value.k, value.d}
      [] OTHER -> {value}

\* C14: an indicator returns null or a result in which every series is not
\* null and holds at least one value (calculateRSI at exactly period + 1
\* prices and calculateStochastic at 14 to 17 bars included).
C14_NullOrFullyComputed ==
    (IsIndicator /\ result.returned) =>
        \/ result.value.null
        \/ \A series \in SeriesOf(args.fn, result.value) :
              ~series.null /\ Len(series.items) >= 1

\* C15: no series an indicator returns contains NaN, Infinity or -Infinity:
\* calculateRSI with avgLoss = 0, calculateCCI on a window of mean deviation
\* 0 and calculateStochastic on a window whose highest high is its lowest
\* low each yield a finite value.
C15_EveryValueIsFinite ==
    (IsIndicator /\ result.returned /\ ~result.value.null) =>
        \A series \in SeriesOf(args.fn, result.value) :
            \A i \in DOMAIN series.items : IsFinite(series.items[i])

\* the sum of the integers at the positions first..last
RECURSIVE SumOf(_, _, _)
SumOf(prices, first, last) ==
    IF first > last THEN 0 ELSE prices[first] + SumOf(prices, first + 1, last)

\* x is the number total / count
IsQuotient(x, total, count) == x.d > 0 /\ x.n * count = total * x.d

\* C16: calculateSMA on L prices with 1 <= p <= L returns exactly L - p + 1
\* values, the i-th the mean of prices[i..i+p-1] ([10,12,14,16,18] with
\* p = 3 gives [12,14,16]), and null when L < p.
C16_SMA ==
    (args.fn = "calculateSMA" /\ result.returned) =>
        LET L == Len(args.prices)
            p == args.period
            sma == result.value
        IN  /\ L < p => sma.null
            /\ L >= p =>
                  /\ ~sma.null
                  /\ Len(sma.items) = L - p + 1
                  /\ \A i \in 1..(L - p + 1) :
                        IsQuotient(sma.items[i], SumOf(args.prices, i, i + p - 1), p)
            /\ (args.prices = <<10, 12, 14, 16, 18>> /\ p = 3) =>
                  sma.items = <<[n |-> 12, d |-> 1], [n |-> 14, d |-> 1], [n |-> 16, d |-> 1]>>

\* the example of the developer guide has returned its three means
C16_Witness ==
    /\ args = [fn |-> "calculateSMA", prices |-> <<10, 12, 14, 16, 18>>, period |-> 3]
    /\ result.returned
    /\ Len(result.value.items) = 3
    /\ result.value.items[1] = [n |-> 12, d |-> 1]

\* C22: for every series of positive prices of length >= period + 1, every
\* value calculateRSI returns lies in [0, 100], with avgLoss = 0 (RS = 100)
\* and on a completely flat series as well.
C22_RsiIsBounded ==
    (args.fn = "calculateRSI" /\ result.returned /\ ~result.value.null) =>
        \A i \in DOMAIN result.value.items :
            LET x == result.value.items[i]
            IN  x.d > 0 /\ 0 <= x.n /\ x.n <= 100 * x.d

\* a flat series of 17 prices: no loss, RS = 100, two values 100 - 100 / 101
C22_Witness ==
    /\ args.fn = "calculateRSI" /\ result.returned
    /\ args.period = 14
    /\ args.prices = PricesOf("flat", 17)
    /\ result.value = Arr(<<Rat(10000, 101), Rat(10000, 101)>>)

\* the prices with the last one replaced
WithLastPrice(prices, price) == [prices EXCEPT ![Len(prices)] = price]

\* C28: on L >= n + 1 prices calculateRSI(prices, n) returns exactly L - n
\* values, one for each price index n..L-1, and its last value reflects the
\* most recent price change: another last price can give another last
\* value.
C28_RsiWarmUp ==
    (args.fn = "calculateRSI" /\ result.returned /\ Len(args.prices) >= args.period + 1) =>
        /\ ~result.value.null
        /\ Len(result.value.items) = Len(args.prices) - args.period
        /\ \E price \in {50, 200} :
              LET other == calculateRSI(Nums(WithLastPrice(args.prices, price)), args.period)
              IN  other.items[Len(other.items)]
                    # result.value.items[Len(result.value.items)]

(***************************************************************************)
(* Claims about the scoring, checked under ScoringSpec                     *)
(***************************************************************************)
\* the analyzer that ran last found none of its indicators
NothingToAnalyze ==
    CASE Len(args.signals) = 1 ->
            /\ ~(args.indicators.sma20.some /\ args.indicators.sma50.some
                   /\ args.indicators.sma200.some)
            /\ ~args.indicators.adx.some
      [] Len(args.signals) = 2 ->
            /\ ~args.indicators.rsi.some /\ ~args.indicators.histogram.some
            /\ ~args.indicators.k.some /\ ~args.indicators.cci.some
      [] Len(args.signals) = 3 -> ~args.indicators.volatility.some
      [] Len(args.signals) \in {4, 5} -> ~args.indicators.present
      [] OTHER -> FALSE

\* C17: the composite score is 0.25 trend + 0.20 momentum + 0.15 volatility
\* + 0.15 volume + 0.15 supportResistance of the category scores, not
\* renormalized (an analyzer that finds none of its indicators scores 0),
\* and lies in [-1, 1] whatever the analyzers return.
C17_CompositeScore ==
    /\ (args.fn = "generatePrediction" /\ NothingToAnalyze) =>
          args.signals[Len(args.signals)].score = 0
    /\ (args.fn = "generatePrediction" /\ result.returned /\ ~result.value.threw) =>
          /\ result.value.compositeScore =
                25 * args.signals[1].score + 20 * args.signals[2].score
                  + 15 * args.signals[3].score + 15 * args.signals[4].score
                  + 15 * args.signals[5].score
          /\ result.value.compositeScore >= -10000
          /\ result.value.compositeScore <= 10000

\* every analyzer gave its greatest score (1, 0.95, 0, 0.5, 0.3): the
\* composite score is 0.56
C17_Witness ==
    /\ args.fn = "generatePrediction"
    /\ result.returned
    /\ ~result.value.threw
    /\ args.signals[1].score = 100
    /\ args.signals[2].score = 95
    /\ args.signals[4].score = 50
    /\ args.signals[5].score = 30
    /\ result.value.compositeScore = 5600

(***************************************************************************)
(* Claims about generateProbabilityDistribution, checked under             *)
(* DistributionSpec.  A percentage p is the number 10000 * p.              *)
(***************************************************************************)
Distributed == args.fn = "generateProbabilityDistribution" /\ result.returned

\* the multiplier m of a regime, in hundredths
RegimeMultiplier(regime) ==
    IF regime = "very high" THEN 50
    ELSE IF regime = "high" THEN 70
    ELSE IF regime = "low" THEN 95
    ELSE 85

\* C18: the direction is bullish or bearish with probability 100 |s| when
\* |s| > 0.5, slightly bullish or slightly bearish with probability
\* 100 (0.5 + |s| / 2) when 0.25 < |s| <= 0.5, and neutral with probability
\* 50 otherwise; the short-term confidence is 100 m(r) with m = 0.5, 0.7,
\* 0.85, 0.95 for very high, high, medium, low and 0.85 for any other
\* regime; the medium-term probability is 0.85 times and the medium-term
\* confidence 0.8 times the short-term one.
C18_Distribution ==
    Distributed =>
        LET s == args.compositeScore
            a == IF s < 0 THEN 0 - s ELSE s
            short == result.value.shortTerm
            medium == result.value.mediumTerm
        IN  /\ a > 50 =>
                  /\ short.direction = IF s > 0 THEN "bullish" ELSE "bearish"
                  /\ short.probability = 10000 * a
            /\ (a > 25 /\ a <= 50) =>
                  /\ short.direction = IF s > 0 THEN "slightly bullish" ELSE "slightly bearish"
                  /\ 2 * short.probability = 10000 * (100 + a)
            /\ a <= 25 =>
                  /\ short.direction = "neutral"
                  /\ short.probability = 10000 * 50
            /\ short.confidence = 10000 * RegimeMultiplier(args.volatilityLevel)
            /\ 100 * medium.probability = 85 * short.probability
            /\ 10 * medium.confidence = 8 * short.confidence
            /\ (s = 60 /\ args.volatilityLevel = "low") =>
                  /\ short.direction = "bullish"
                  /\ short.probability = 600000 /\ short.confidence = 950000
                  /\ medium.probability = 510000 /\ medium.confidence = 760000
            /\ (s = 0 /\ args.volatilityLevel = "medium") =>
                  /\ short.direction = "neutral"
                  /\ short.probability = 500000 /\ short.confidence = 850000

\* a slightly bearish distribution for a regime that is not classified
C18_Witness ==
    /\ Distributed
    /\ args.compositeScore = -27
    /\ args.volatilityLevel = "extreme"
    /\ result.value.shortTerm.direction = "slightly bearish"
    /\ result.value.shortTerm.probability = 635000
    /\ result.value.mediumTerm.probability = 539750
    /\ result.value.shortTerm.confidence = 850000

\* C19: the medium-term forecast of a prediction has the direction of the
\* short-term forecast, a strictly lower probability, a strictly lower
\* confidence, and an expected range (1.5 expectedMove either side of the
\* price) strictly wider than, and containing, the short-term range (0.5
\* expectedMove either side).
C19_MediumTermIsDampened ==
    Distributed =>
        LET short == result.value.shortTerm
            medium == result.value.mediumTerm
        IN  /\ medium.direction = short.direction
            /\ medium.probability < short.probability
            /\ medium.confidence < short.confidence
            /\ medium.low < short.low
            /\ short.low < short.high
            /\ short.high < medium.high

\* a neutral forecast in the calmest regime: the narrowest ranges
C19_Witness ==
    /\ Distributed
    /\ args.compositeScore = 0
    /\ args.volatilityLevel = "low"
    /\ args.currentPrice = 2000
    /\ result.value.shortTerm.low = 1960
    /\ result.value.shortTerm.high = 2040
    /\ result.value.mediumTerm.low = 1880
    /\ result.value.mediumTerm.high = 2120

(***************************************************************************)
(* Claims about clusterLevels, checked under ClusterSpec                   *)
(***************************************************************************)
\* two levels are within 2% of each other, or more than 2% apart, relative
\* to the lower of the two
Within2Percent(x, y) == 100 * Abs(x - y) < 2 * Min(x, y)
MoreThan2PercentApart(x, y) == 100 * Abs(x - y) > 2 * Min(x, y)

\* clusters is the list of the averages of the groups into which g puts the
\* raw levels
IsGrouping(g, levels, clusters) ==
    \A c \in DOMAIN clusters :
        LET members == {i \in DOMAIN levels : g[i] = c}
        IN  /\ members # {}
            /\ IsQuotient(clusters[c],
                          SumInts([n \in 1..Len(levels) |->
                                      IF n \in members THEN levels[n] ELSE 0]),
                          Cardinality(members))

\* C20: the clusters returned are the averages of groups of the raw levels
\* in which any two levels within 2% of each other are in one group and any
\* two levels more than 2% apart are in distinct groups, chains of levels
\* each within 2% of the next included.
C20_ClustersBy2Percent ==
    (args.fn = "clusterLevels" /\ result.returned) =>
        LET levels == args.levels
            clusters == result.value
        IN  \E g \in [DOMAIN levels -> DOMAIN clusters] :
                /\ IsGrouping(g, levels, clusters)
                /\ \A i, j \in DOMAIN levels :
                      /\ Within2Percent(levels[i], levels[j]) => g[i] = g[j]
                      /\ MoreThan2PercentApart(levels[i], levels[j]) => g[i] # g[j]

(***************************************************************************)
(* Claims about analyzeSupportResistance, checked under                    *)
(* SupportResistanceSpec                                                   *)
(***************************************************************************)
LevelsAnalyzed == args.fn = "analyzeSupportResistance" /\ result.returned

\* C21: analyzeSupportResistance completes without throwing for every
\* result of calculateSupportResistance on 50 or more bars, a result with
\* an empty support or resistance list included, and returns a score in
\* [-1, 1].
C21_AnalysisNeverThrows ==
    LevelsAnalyzed =>
        /\ ~result.value.threw
        /\ result.value.score \in -100..100

\* the levels of a list at the least absolute distance from the price
NearestLevels(levels, price) ==
    {levels[n] : n \in {m \in DOMAIN levels :
        \A o \in DOMAIN levels : Abs(levels[m] - price) <= Abs(levels[o] - price)}}

\* a level is less than 2% of the price away from the price
LessThan2PercentAway(level, price) == 100 * Abs(level - price) < 2 * price

\* C26: the score is +0.3 when the support nearest to the price by absolute
\* distance is less than 2% of the price away from it, -0.3 when the
\* nearest resistance is, the sum when both are; a nearest level 2% or more
\* away, on either side of the price, contributes nothing.
C26_ProximityScore ==
    (LevelsAnalyzed /\ ~result.value.threw /\ args.supportResistance.support # <<>>) =>
        LET price == args.ohlcData[Len(args.ohlcData)].close
            levels == LevelsOf(args.supportResistance)
        IN  \E nearestSupport \in NearestLevels(levels.support, price),
               nearestResistance \in NearestLevels(levels.resistance, price) :
                result.value.score =
                    (IF LessThan2PercentAway(nearestSupport, price) THEN 30 ELSE 0)
                      - (IF LessThan2PercentAway(nearestResistance, price) THEN 30 ELSE 0)

(***************************************************************************)
(* Claims about the request queue, checked under FetcherSpec and, for the  *)
(* requests that must not be stranded, under FairFetcherSpec               *)
(***************************************************************************)
\* C23: the start times of any two consecutive HTTP calls issued by
\* processQueue are at least 1200 ms apart, whatever the responses.
C23_RateLimited ==
    (fetcher.previousStart # NULL /\ fetcher.lastStart # NULL) =>
        fetcher.lastStart - fetcher.previousStart >= 1200

\* C24: a request whose HTTP call fails is retried before its promise is
\* rejected: a rejected request has had more than one HTTP call.
C24_RetriedBeforeRejected ==
    \A request \in DOMAIN fetcher.requests :
        fetcher.requests[request].outcome = "rejected" =>
            fetcher.requests[request].attempts >= 2

\* at most one loop; a request is dequeued and settled at most once; with
\* processing false nothing is queued and every request made is settled
OneLoopQueueDrained ==
    /\ Len(fetcher.loops) <= 1
    /\ \A request \in DOMAIN fetcher.requests :
          /\ fetcher.requests[request].dequeued <= 1
          /\ fetcher.requests[request].settled <= 1
          /\ fetcher.requests[request].settled <= fetcher.requests[request].dequeued
    /\ ~fetcher.processing =>
          /\ fetcher.requestQueue = <<>>
          /\ fetcher.loops = <<>>
          /\ \A request \in DOMAIN fetcher.requests :
                /\ fetcher.requests[request].dequeued = 1
                /\ fetcher.requests[request].settled = 1
                /\ fetcher.requests[request].outcome \in {"resolved", "rejected"}

IsMade(request) == request \in DOMAIN fetcher.requests
IsSettled(request) == IsMade(request) /\ fetcher.requests[request].settled = 1

\* C29: at most one processQueue loop is active; whenever processing is
\* false the queue is empty; every request made is dequeued once and its
\* promise is settled exactly once (it is settled eventually, and never
\* twice), after failures of earlier requests as well.
C29_OneLoopNoRequestStranded ==
    /\ []OneLoopQueueDrained
    /\ \A request \in 1..MaxRequests : IsMade(request) ~> IsSettled(request)

\* the loop has exited after three requests, the first of which failed
C29_Witness ==
    /\ ~fetcher.processing
    /\ Len(fetcher.requests) = 3
    /\ fetcher.requests[1].outcome = "rejected"
    /\ fetcher.requests[2].outcome = "resolved"
    /\ fetcher.requests[3].outcome = "resolved"
    /\ fetcher.lastStart - fetcher.previousStart = 1200 + 2000

(***************************************************************************)
(* Claims about the tracking of the engine's predictions, checked under    *)
(* TrackingSpec                                                            *)
(***************************************************************************)
\* the price went from original to actual the way the direction says
MovedAsPredicted(direction, original, actual) ==
    CASE direction \in {"bullish", "slightly bullish"} -> actual > original
      [] direction \in {"bearish", "slightly bearish"} -> actual < original
      [] OTHER -> actual = original

\* C25: a prediction that generatePrediction persisted can be marked
\* accurate: when its later price has moved in the predicted direction and
\* lies inside its predicted range, the sweep records was_accurate = 1.
C25_EnginePredictionCanBeAccurate ==
    \A id \in DOMAIN predictions :
        LET p == predictions[id]
        IN  (/\ ~IsPending(p)
             /\ MovedAsPredicted(p.predicted_direction,
                                 OriginalPrice(p.crypto_id, p.created_at), p.actual_price)
             /\ p.actual_price >= p.predicted_price_range_low
             /\ p.actual_price <= p.predicted_price_range_high) => p.was_accurate = 1

(***************************************************************************)
(* Claims about analyzeVolume, checked under VolumeSpec                    *)
(***************************************************************************)
\* C27: with c the volume of the current period and a the average volume of
\* the last 20 periods, the score is the sum, clamped to [-1, 1], of +0.3
\* when c >= 2a, +0.15 when 1.5a <= c < 2a, -0.1 when c <= 0.5a, and of
\* +0.2 when OBV rose over the short window, -0.2 when it fell.
C27_VolumeScore ==
    (args.fn = "analyzeVolume" /\ result.returned) =>
        LET bars == args.ohlcData
            current == bars[Len(bars)].volume
            total == SumRange([i \in DOMAIN bars |-> bars[i].volume], Len(bars) - 19, Len(bars))
            obvTrend == SubSeq(args.obv, Len(args.obv) - 9, Len(args.obv))
            spike == IF 20 * current >= 2 * total THEN 30
                     ELSE IF 40 * current >= 3 * total THEN 15
                     ELSE IF 40 * current <= total THEN -10
                     ELSE 0
            trend == IF obvTrend[10] > obvTrend[1] THEN 20
                     ELSE IF obvTrend[10] < obvTrend[1] THEN -20
                     ELSE 0
        IN  result.value.score = Max(-100, Min(100, spike + trend))

(***************************************************************************)
(* The sweep and a prediction without a reference price, checked under     *)
(* Spec                                                                    *)
(***************************************************************************)
\* a sweep leaves a pending row without a reference price as it is; when
\* the row is due for the sweep (its asset is listed and the time condition
\* of the query holds) the sweep selects it and counts it
C30_Step ==
    IsSweep(ret') =>
        \A id \in DOMAIN predictions :
            LET p == predictions[id]
            IN  (IsPending(p) /\ ~HasReferencePrice(p)) =>
                  /\ predictions'[id] = p
                  /\ OutcomeUnset(predictions'[id])
                  /\ (/\ cryptocurrencies[p.crypto_id].present
                      /\ p.created_at + p.timeframe * 1000 <= now) =>
                        /\ id \in ret'.selected
                        /\ ret'.value = Cardinality(ret'.selected)

\* C30: a due prediction for which price_history holds no row of its asset
\* at or before created_at is not modified by evaluatePredictions: it stays
\* pending with every outcome column unset, is counted in the number the
\* sweep returns, and is selected again by every later sweep as long as no
\* reference price exists.
C30_NoReferencePriceNoChange == [][C30_Step]_vars

\* a sweep selected and counted a row that it could not evaluate
C30_Witness ==
    /\ IsSweep(ret)
    /\ ret.value >= 1
    /\ \E id \in ret.selected :
          /\ ~HasReferencePrice(predictions[id])
          /\ OutcomeUnset(predictions[id])

====
